---- MODULE Spec2Model ----
(***************************************************************************)
(* Model of the real-time generation and delivery pipeline of the Alpha    *)
(* chat backend: the connection registry and the streaming coordinator of  *)
(* backend/websocket_manager.py, the streaming gateway of                  *)
(* backend/ai_service.py, the socket endpoint of                           *)
(* backend/routes/websocket_routes.py and the sliding-window rate limiter  *)
(* of backend/rate_limiter.py with the routes it guards.                   *)
(***************************************************************************)
EXTENDS Integers, Sequences, FiniteSets, Bags, TLC

(***************************************************************************)
(* Bounds of the model.                                                    *)
(***************************************************************************)
\* wire events one provider stream delivers at most
MaxEvents == 2
\* elements a directly supplied lazy sequence yields at most
MaxRaw == 2

None == "None"

Users == {"u1", "u2"}
Sockets == {"w1", "w2", "w3"}
\* the identity of the access token each socket's client presents
Token == [w \in Sockets |-> IF w = "w3" THEN "u2" ELSE "u1"]
\* message ids: one fresh uuid4 per run
Runs == {"m1", "m2"}
\* interchangeable names are used in order: the two sockets of u1, the two ids
Before(x) == IF x = "w2" THEN {"w1"} ELSE IF x = "m2" THEN {"m1"} ELSE {}
\* text deltas a provider delivers ("" is an empty delta)
Texts == {"", "a", "b"}
\* the exceptions a provider stream or a lazy sequence raises (str(e)): two
\* texts of one kind of exception
Exceptions == {"boom", "bang"}
\* the exception the source of a run may raise: the two runs differ in text
RunExceptions(m) == IF m = "m1" THEN {"boom"} ELSE Exceptions \ {"boom"}

VARIABLES
    active_connections, \* ConnectionManager.active_connections: user -> set of sockets
    connection_users,   \* ConnectionManager.connection_users: socket -> user
    transport,          \* per socket: "new", "open" (send_text succeeds), "closed"
    endpoint,           \* per socket: position of websocket_endpoint
    received,           \* per socket: the frames its client received, in order
    runs                \* per message id: one invocation of stream_ai_response

svars == <<active_connections, connection_users, transport, endpoint, received, runs>>

VARIABLES
    now,          \* datetime.utcnow(), in seconds
    ticks,        \* how often the clock has advanced
    rate_limits,  \* the documents of db.rate_limits, a bag
    response,     \* the outcome of the most recent HTTP request
    admitted,     \* history: the check_rate_limit calls that returned True
    bodies        \* history: the handler bodies that ran

rvars == <<now, ticks, rate_limits, response, admitted, bodies>>

VARIABLES
    history,      \* the messages of one chat, oldest first
    fit,          \* the most recent truncate_messages_to_fit_context call
    generation    \* one generate_response call and what its caller made of it

VARIABLES
    title         \* the most recent generate_title call

VARIABLES
    shaped,       \* the most recent provider request built by a generate_response_* call
    inbox,        \* per socket: the messages its client sent that are not yet read
    posting       \* one send_message call of chat_routes.py, step by step

xvars == <<shaped, inbox, posting>>

tvars == <<title, xvars>>

VARIABLES
    calls,        \* the check_rate_limit calls in flight, step by step
    broadcast     \* one broadcast_system_message call

cvars == <<calls, broadcast>>

gvars == <<history, fit, generation, tvars, cvars>>

vars == <<svars, rvars, gvars>>

(***************************************************************************)
(* Frames and chunks.                                                      *)
(***************************************************************************)
Frame(type, message_id, chunk, full_content, error) ==
    [type |-> type, message_id |-> message_id, chunk |-> chunk,
     full_content |-> full_content, error |-> error]

NoChunk == [type |-> None, content |-> None, finish_reason |-> None, error |-> None]

\* ai_service.py 266-270 / 281-285
TextChunk(text) ==
    [type |-> "chunk", content |-> text, finish_reason |-> None, error |-> None]

\* ai_service.py 272-276 / 288-292
EndChunk(reason) ==
    [type |-> "end", content |-> "", finish_reason |-> reason, error |-> None]

ErrorContent == "An error occurred while generating the response."

\* ai_service.py 296-300
ErrorChunk(e) ==
    [type |-> "error", content |-> ErrorContent, finish_reason |-> None, error |-> e]

StreamStart(m) == Frame("stream_start", m, NoChunk, None, None)
StreamChunk(m, c) == Frame("stream_chunk", m, c, None, None)
StreamEnd(m, full) == Frame("stream_end", m, NoChunk, full, None)
StreamError(m, e) == Frame("stream_error", m, NoChunk, None, e)
ConnectionFrame(u) == Frame("connection", u, NoChunk, None, None)

(***************************************************************************)
(* ConnectionManager                                                       *)
(***************************************************************************)
\* faulty variant: the socket leaves the user's set but keeps its mapping
DisconnectMapsKeepsMapping(ac, cu, ws) ==
    IF ws \in DOMAIN cu
    THEN LET u == cu[ws]
             ac1 == IF u \in DOMAIN ac
                    THEN IF ac[u] \ {ws} = {}
                         THEN [v \in DOMAIN ac \ {u} |-> ac[v]]
                         ELSE [ac EXCEPT ![u] = @ \ {ws}]
                    ELSE ac
         IN  [ac |-> ac1, cu |-> cu, raised |-> FALSE]
    ELSE [ac |-> ac, cu |-> cu, raised |-> FALSE]

\* faulty variant: the user's set is kept when its last socket leaves
DisconnectMapsKeepsEmptySet(ac, cu, ws) ==
    IF ws \in DOMAIN cu
    THEN LET u == cu[ws]
             ac1 == IF u \in DOMAIN ac
                    THEN [ac EXCEPT ![u] = @ \ {ws}]
                    ELSE ac
         IN  [ac |-> ac1, cu |-> [w \in DOMAIN cu \ {ws} |-> cu[w]], raised |-> FALSE]
    ELSE [ac |-> ac, cu |-> cu, raised |-> FALSE]

\* faulty variant: no `if user_id:` guard: del connection_users[websocket]
\* raises KeyError for a socket that is not mapped
DisconnectMapsUnguarded(ac, cu, ws) ==
    IF ws \in DOMAIN cu
    THEN LET u == cu[ws]
             ac1 == IF u \in DOMAIN ac
                    THEN IF ac[u] \ {ws} = {}
                         THEN [v \in DOMAIN ac \ {u} |-> ac[v]]
                         ELSE [ac EXCEPT ![u] = @ \ {ws}]
                    ELSE ac
         IN  [ac |-> ac1, cu |-> [w \in DOMAIN cu \ {ws} |-> cu[w]], raised |-> FALSE]
    ELSE [ac |-> ac, cu |-> cu, raised |-> TRUE]

\* disconnect(websocket): the two maps after the call, and whether it raised
DisconnectMaps(ac, cu, ws) ==
    IF ws \in DOMAIN cu
    THEN LET u == cu[ws]
             ac1 == IF u \in DOMAIN ac
                    THEN IF ac[u] \ {ws} = {}
                         THEN [v \in DOMAIN ac \ {u} |-> ac[v]]
                         ELSE [ac EXCEPT ![u] = @ \ {ws}]
                    ELSE ac
         IN  [ac |-> ac1, cu |-> [w \in DOMAIN cu \ {ws} |-> cu[w]], raised |-> FALSE]
    ELSE [ac |-> ac, cu |-> cu, raised |-> FALSE]

RECURSIVE DisconnectAll(_, _, _)
\* send_to_user's clean-up loop: disconnect every socket whose send failed
DisconnectAll(ac, cu, failed) ==
    IF failed = {} THEN [ac |-> ac, cu |-> cu]
    ELSE LET ws == CHOOSE w \in failed : TRUE
             m == DisconnectMaps(ac, cu, ws)
         IN  DisconnectAll(m.ac, m.cu, failed \ {ws})

\* faulty variant: a user without a set gets every registered socket
RecipientsOrEveryone(u) ==
    IF u \in DOMAIN active_connections THEN active_connections[u]
    ELSE DOMAIN connection_users

\* the copy send_to_user iterates: the user's sockets when the call starts
Recipients(u) ==
    IF u \in DOMAIN active_connections THEN active_connections[u] ELSE {}

IsUserConnected(u) ==
    u \in DOMAIN active_connections /\ Cardinality(active_connections[u]) > 0

(***************************************************************************)
(* ProviderGateway: generate_stream_response as a lazy sequence            *)
(***************************************************************************)
\* the events of an Anthropic stream
ClaudeEvents ==
    {[type |-> "content_block_delta", text |-> t] : t \in Texts}
    \cup {[type |-> "message_stop", text |-> None],
          [type |-> "message_start", text |-> None]}

FinishReasons == {"stop", "length"}

\* the chunks of an OpenAI stream (choices may be empty; delta.content and
\* finish_reason may each be absent)
OpenAIEvents ==
    {[choices |-> FALSE, content |-> None, finish_reason |-> None]}
    \cup {[choices |-> TRUE, content |-> c, finish_reason |-> f] :
             c \in {None, "", "a"}, f \in FinishReasons \cup {None}}

\* Python truthiness of an optional string
Truthy(x) == x # None /\ x # ""

\* what one Anthropic event makes the generator yield
ClaudeYields(ev) ==
    IF ev.type = "content_block_delta" THEN <<TextChunk(ev.text)>>
    ELSE IF ev.type = "message_stop" THEN <<EndChunk("stop")>>
    ELSE <<>>

\* what one OpenAI chunk makes the generator yield
OpenAIYields(ev) ==
    (IF ev.choices /\ Truthy(ev.content) THEN <<TextChunk(ev.content)>> ELSE <<>>)
    \o (IF ev.choices /\ Truthy(ev.finish_reason)
        THEN <<EndChunk(ev.finish_reason)>> ELSE <<>>)

WireEvents(source) == IF source = "claude" THEN ClaudeEvents ELSE OpenAIEvents

WireYields(source, ev) ==
    IF source = "claude" THEN ClaudeYields(ev) ELSE OpenAIYields(ev)

\* str(KeyError("stream")): generate_response returned its fallback dict
KeyErrorStream == "'stream'"

\* a chunk without a "content" key
BareChunk == [NoChunk EXCEPT !.type = "chunk"]

\* the elements a directly supplied lazy sequence may yield
RawChunks == {TextChunk("a"), TextChunk("b"), BareChunk}

\* two sequences consumed at the same time yield texts that tell them apart
RunChunks(m) ==
    IF m = "m1" THEN {TextChunk("a"), TextChunk("b")} ELSE {TextChunk("c")}

(***************************************************************************)
(* StreamingResponseManager.stream_ai_response                             *)
(***************************************************************************)
IdleRun ==
    [pc |-> "idle", user_id |-> None, owner |-> None, source |-> None,
     gen |-> "init", gbuf |-> <<>>, events |-> 0, cur |-> NoChunk,
     full_content |-> "", pending |-> {}, disconnected |-> {},
     emitted |-> <<>>, yielded |-> <<>>, pulls |-> 0, provider_raised |-> -1,
     raised |-> FALSE, audience |-> {}, failed |-> {}, orphaned |-> FALSE]

InFlight(r) == runs[r].pc \notin {"idle", "done"}

\* faulty variant: full_content = chunk["content"]: assignment instead of +=
AccumulateOverwrite(full, chunk) ==
    IF Truthy(chunk.content) THEN chunk.content ELSE full

\* full_content += chunk["content"] when chunk.get("content") is truthy
Accumulate(full, chunk) ==
    IF Truthy(chunk.content) THEN full \o chunk.content ELSE full

\* faulty variant: stream_end sent inside the loop: the run keeps pulling after it
AfterSendReopens(run) ==
    IF run.pc = "start" THEN [run EXCEPT !.pc = "pull"]
    ELSE IF run.pc = "chunk"
    THEN [run EXCEPT !.pc = "pull",
                     !.full_content = Accumulate(run.full_content, run.cur)]
    ELSE IF run.pc = "end" THEN [run EXCEPT !.pc = "pull"]
    ELSE [run EXCEPT !.pc = "done"]

\* the run once the send_to_user call it is in has returned
AfterSend(run) ==
    IF run.pc = "start" THEN [run EXCEPT !.pc = "pull"]
    ELSE IF run.pc = "chunk"
    THEN [run EXCEPT !.pc = "pull",
                     !.full_content = Accumulate(run.full_content, run.cur)]
    ELSE [run EXCEPT !.pc = "done"]

\* faulty variant: the run gives up when the user has no socket left
BeginSendCancel(run, pc, frame) ==
    LET r1 == [run EXCEPT !.pc = pc, !.emitted = Append(@, frame),
                          !.pending = Recipients(run.user_id),
                          !.disconnected = {},
                          !.orphaned = @ \/ (run.audience # {}
                                              /\ Recipients(run.user_id) = {})]
    IN  IF r1.pending = {}
        THEN IF run.audience # {} THEN [r1 EXCEPT !.pc = "done"] ELSE AfterSend(r1)
        ELSE r1

\* the run entering send_to_user(user_id, frame) from position pc
BeginSend(run, pc, frame) ==
    LET r1 == [run EXCEPT !.pc = pc, !.emitted = Append(@, frame),
                          !.pending = Recipients(run.user_id),
                          !.disconnected = {},
                          !.orphaned = @ \/ (run.audience # {}
                                              /\ Recipients(run.user_id) = {})]
    IN  IF r1.pending = {} THEN AfterSend(r1) ELSE r1

\* faulty variant: the chunk is accumulated but not relayed
OnItemNoRelay(m, run, c) ==
    AfterSend([run EXCEPT !.cur = c, !.yielded = Append(@, c), !.pc = "chunk"])

\* faulty variant: every chunk frame carries the id of the first run
OnItemSharedId(m, run, c) ==
    BeginSend([run EXCEPT !.cur = c, !.yielded = Append(@, c)],
              "chunk", StreamChunk("m1", c))

\* the generator yielded chunk c: relay it
OnItem(m, run, c) ==
    BeginSend([run EXCEPT !.cur = c, !.yielded = Append(@, c)],
              "chunk", StreamChunk(m, c))

\* the generator is exhausted: send stream_end
OnStop(m, run) == BeginSend(run, "end", StreamEnd(m, run.full_content))

\* faulty variant: the exception is swallowed and the stream closed as if complete
OnRaiseSwallowed(m, run, e) == OnStop(m, run)

\* the generator raised e: send stream_error
OnRaise(m, run, e) == BeginSend(run, "error", StreamError(m, e))

\* one more __anext__ of the generator has returned
Pulled(run) == [run EXCEPT !.pulls = @ + 1]

(***************************************************************************)
(* websocket_endpoint and the registry operations                          *)
(***************************************************************************)
\* faulty variant: handle_stream_request is started as a task and not awaited
BusyNever(ws) == FALSE

\* the endpoint of ws is awaiting a run it started
Busy(ws) == \E m \in Runs : runs[m].owner = ws /\ InFlight(m)

\* faulty variant: the socket also joins the set of every registered user
AddConnectionToAll(ac, user_id, websocket) ==
    [v \in DOMAIN ac \cup {user_id} |->
        IF v \in DOMAIN ac THEN ac[v] \cup {websocket} ELSE {websocket}]

\* connect: the user's set is created if missing and the socket added to it
AddConnection(ac, user_id, websocket) ==
    IF user_id \in DOMAIN ac
    THEN [ac EXCEPT ![user_id] = @ \cup {websocket}]
    ELSE [v \in DOMAIN ac \cup {user_id} |->
             IF v = user_id THEN {websocket} ELSE ac[v]]

\* manager.connect up to its confirmation send: accept, then register
Connect(ws, u) ==
    /\ endpoint[ws].pos = "none"
    /\ \A w \in Before(ws) : endpoint[w].pos # "none"
    /\ u = Token[ws]
    /\ transport' = [transport EXCEPT ![ws] = "open"]
    /\ active_connections' = AddConnection(active_connections, u, ws)
    /\ connection_users' =
          [w \in DOMAIN connection_users \cup {ws} |->
              IF w = ws THEN u ELSE connection_users[w]]
    /\ endpoint' = [endpoint EXCEPT ![ws] = [pos |-> "connecting", user_id |-> u]]
    /\ UNCHANGED <<received, runs>>
    /\ UNCHANGED rvars
    /\ UNCHANGED gvars

\* manager.connect's send_personal_message of the confirmation
ConnectConfirm(ws) ==
    /\ endpoint[ws].pos = "connecting"
    /\ endpoint' = [endpoint EXCEPT ![ws].pos = "loop"]
    /\ IF transport[ws] = "open"
       THEN /\ received' = [received EXCEPT
                               ![ws] = Append(@, ConnectionFrame(endpoint[ws].user_id))]
            /\ UNCHANGED <<active_connections, connection_users>>
       ELSE LET m == DisconnectMaps(active_connections, connection_users, ws)
            IN  /\ active_connections' = m.ac
                /\ connection_users' = m.cu
                /\ UNCHANGED received
    /\ UNCHANGED <<transport, runs>>
    /\ UNCHANGED rvars
    /\ UNCHANGED gvars

\* the client goes away: every later send_text on ws raises
ClientClose(ws) ==
    /\ transport[ws] = "open"
    /\ transport' = [transport EXCEPT ![ws] = "closed"]
    /\ UNCHANGED <<active_connections, connection_users, endpoint, received, runs>>
    /\ UNCHANGED rvars
    /\ UNCHANGED gvars

\* receive_text raises (client gone, or a malformed message): finally disconnect
EndpointExit(ws) ==
    /\ endpoint[ws].pos = "loop"
    /\ ~Busy(ws)
    /\ LET m == DisconnectMaps(active_connections, connection_users, ws)
       IN  /\ active_connections' = m.ac
           /\ connection_users' = m.cu
    /\ endpoint' = [endpoint EXCEPT ![ws].pos = "exited"]
    /\ transport' = [transport EXCEPT ![ws] = "closed"]
    /\ UNCHANGED <<received, runs>>
    /\ UNCHANGED rvars
    /\ UNCHANGED gvars

\* faulty variant: the exception of one send leaves the loop
RemainingAbort(pending, ws, ok) == IF ok THEN pending \ {ws} ELSE {}

\* the sockets send_to_user still has to try after the send to ws returned
\* or raised: the exception is caught inside the loop
Remaining(pending, ws, ok) == pending \ {ws}

\* one websocket.send_text of the send_to_user call run m is in; after the
\* last one the sockets whose send failed are disconnected
SendOne(m) ==
    /\ runs[m].pending # {}
    /\ \E ws \in runs[m].pending :
          LET ok == transport[ws] = "open"
              frame == runs[m].emitted[Len(runs[m].emitted)]
              r1 == [runs[m] EXCEPT
                        !.pending = Remaining(@, ws, ok),
                        !.disconnected = IF ok THEN @ ELSE @ \cup {ws},
                        !.failed = IF ok THEN @ ELSE @ \cup {ws}]
              last == r1.pending = {}
              maps == IF last
                      THEN DisconnectAll(active_connections, connection_users,
                                         r1.disconnected)
                      ELSE [ac |-> active_connections, cu |-> connection_users]
          IN  /\ received' = IF ok THEN [received EXCEPT ![ws] = Append(@, frame)]
                             ELSE received
              /\ active_connections' = maps.ac
              /\ connection_users' = maps.cu
              /\ runs' = [runs EXCEPT ![m] = IF last THEN AfterSend(r1) ELSE r1]
    /\ UNCHANGED <<transport, endpoint>>
    /\ UNCHANGED rvars
    /\ UNCHANGED gvars

\* the run handle_stream_request starts for the endpoint of ws: stream_ai_response
\* on the gateway's generator, entering its first send
RequestedRun(ws, m, source) ==
    BeginSend([IdleRun EXCEPT !.user_id = endpoint[ws].user_id,
                              !.owner = ws, !.source = source,
                              !.audience = Recipients(endpoint[ws].user_id)],
              "start", StreamStart(m))

\* handle_stream_request: a stream_request read by the endpoint of ws starts
\* run m on the gateway's generator for one of the two backend families
HandleStreamRequest(ws, m, source) ==
    /\ endpoint[ws].pos = "loop"
    /\ transport[ws] = "open"
    /\ ~Busy(ws)
    /\ runs[m].pc = "idle"
    /\ \A k \in Before(m) : runs[k].pc # "idle"
    /\ runs' = [runs EXCEPT ![m] = RequestedRun(ws, m, source)]
    /\ UNCHANGED <<active_connections, connection_users, transport, endpoint, received>>
    /\ UNCHANGED rvars
    /\ UNCHANGED gvars

\* stream_ai_response called with an arbitrary lazy sequence
StreamAiResponse(m, u) ==
    /\ runs[m].pc = "idle"
    /\ \A k \in Before(m) : runs[k].pc # "idle"
    /\ runs' = [runs EXCEPT ![m] =
          BeginSend([IdleRun EXCEPT !.user_id = u, !.source = "raw",
                                    !.gen = "stream",
                                    !.audience = Recipients(u)],
                    "start", StreamStart(m))]
    /\ UNCHANGED <<active_connections, connection_users, transport, endpoint, received>>
    /\ UNCHANGED rvars
    /\ UNCHANGED gvars

\* run m awaits the next element of generate_stream_response, which is at
\* one of the positions gens ("init": generate_response not yet awaited)
Pulling(m, gens) ==
    /\ runs[m].pc = "pull"
    /\ runs[m].source \in {"openai", "claude"}
    /\ runs[m].gen \in gens

Registry == <<active_connections, connection_users, transport, endpoint, received>>

\* generate_response returned its fallback dict: response["stream"] raises
GatewayFallback(m) ==
    /\ Pulling(m, {"init"})
    /\ runs' = [runs EXCEPT ![m] =
          OnItem(m, Pulled([@ EXCEPT !.gen = "closed", !.provider_raised = 0]),
                 ErrorChunk(KeyErrorStream))]
    /\ UNCHANGED Registry
    /\ UNCHANGED rvars
    /\ UNCHANGED gvars

\* the second yield of one OpenAI chunk
GatewayBuffered(m) ==
    /\ Pulling(m, {"stream"})
    /\ runs[m].gbuf # <<>>
    /\ runs' = [runs EXCEPT ![m] =
          OnItem(m, Pulled([@ EXCEPT !.gbuf = Tail(@)]), Head(runs[m].gbuf))]
    /\ UNCHANGED Registry
    /\ UNCHANGED rvars
    /\ UNCHANGED gvars

\* the provider stream delivers one event
GatewayEvent(m) ==
    /\ Pulling(m, {"init", "stream"})
    /\ runs[m].gbuf = <<>>
    /\ runs[m].events < MaxEvents
    /\ \E ev \in WireEvents(runs[m].source) :
          LET ys == WireYields(runs[m].source, ev)
              r1 == [runs[m] EXCEPT !.events = @ + 1, !.gen = "stream"]
          IN  runs' = [runs EXCEPT ![m] =
                 IF ys = <<>> THEN r1
                 ELSE OnItem(m, Pulled([r1 EXCEPT !.gbuf = Tail(ys)]), Head(ys))]
    /\ UNCHANGED Registry
    /\ UNCHANGED rvars
    /\ UNCHANGED gvars

\* the provider stream ends
GatewayEnd(m) ==
    /\ Pulling(m, {"init", "stream"})
    /\ runs[m].gbuf = <<>>
    /\ runs' = [runs EXCEPT ![m] = OnStop(m, Pulled([@ EXCEPT !.gen = "closed"]))]
    /\ UNCHANGED Registry
    /\ UNCHANGED rvars
    /\ UNCHANGED gvars

\* faulty variant: the generator goes on reading the provider stream
StreamFailedKeepsReading(run) ==
    [run EXCEPT !.gen = "stream", !.provider_raised = Len(run.yielded)]

\* the except clause of generate_stream_response: the loop over the provider
\* stream is left for good; what remains is the error chunk
StreamFailed(run) ==
    [run EXCEPT !.gen = "closed", !.provider_raised = Len(run.yielded)]

\* the provider stream raises: the generator yields an error chunk
GatewayRaise(m) ==
    /\ Pulling(m, {"init", "stream"})
    /\ runs[m].gbuf = <<>>
    /\ \E e \in RunExceptions(m) :
          runs' = [runs EXCEPT ![m] =
             OnItem(m, Pulled(StreamFailed(runs[m])), ErrorChunk(e))]
    /\ UNCHANGED Registry
    /\ UNCHANGED rvars
    /\ UNCHANGED gvars

\* the generator returned after its error chunk
GatewayClosed(m) ==
    /\ Pulling(m, {"closed"})
    /\ runs' = [runs EXCEPT ![m] = OnStop(m, Pulled(@))]
    /\ UNCHANGED Registry
    /\ UNCHANGED rvars
    /\ UNCHANGED gvars

PullingRaw(m) ==
    /\ runs[m].pc = "pull"
    /\ runs[m].source = "raw"

RawItem(m, chunks) ==
    /\ PullingRaw(m)
    /\ runs[m].events < MaxRaw
    /\ \E c \in chunks :
          runs' = [runs EXCEPT ![m] = OnItem(m, Pulled([@ EXCEPT !.events = @ + 1]), c)]
    /\ UNCHANGED Registry
    /\ UNCHANGED rvars
    /\ UNCHANGED gvars

RawStop(m) ==
    /\ PullingRaw(m)
    /\ runs' = [runs EXCEPT ![m] = OnStop(m, Pulled([@ EXCEPT !.gen = "closed"]))]
    /\ UNCHANGED Registry
    /\ UNCHANGED rvars
    /\ UNCHANGED gvars

RawRaise(m) ==
    /\ PullingRaw(m)
    /\ \E e \in RunExceptions(m) :
          runs' = [runs EXCEPT ![m] =
             OnRaise(m, Pulled([@ EXCEPT !.gen = "closed", !.raised = TRUE]), e)]
    /\ UNCHANGED Registry
    /\ UNCHANGED rvars
    /\ UNCHANGED gvars

(***************************************************************************)
(* rate_limiter.py: the sliding-window limiter over db.rate_limits.  Time   *)
(* is datetime.utcnow() in whole seconds.  A document is                   *)
(* [key, identifier, timestamp, expires_at]; the collection is a bag.      *)
(***************************************************************************)
MaxTicks == 2
MaxBodies == 31
Ips == {"ip1"}
TickSteps == {1, 60, 3600}

\* delete_many / count_documents / find_one(sort timestamp ascending) / insert_one
\* (hits: the documents the query matches)
DeleteMany(coll, hits) == [d \in DOMAIN coll \ hits |-> coll[d]]
CountDocuments(coll, hits) == BagCardinality([d \in DOMAIN coll \cap hits |-> coll[d]])
\* find_one answers << >> for no document, <<doc>> for the one found
FindOldest(coll, hits) ==
    IF hits = {} THEN << >>
    ELSE <<CHOOSE x \in hits : \A y \in hits : x.timestamp <= y.timestamp>>

\* faulty variant: the delete_many filter without "identifier"
OlderOfAnyIdentifier(coll, key, identifier, t) ==
    {d \in DOMAIN coll : d.key = key /\ d.timestamp < t}

\* {key, identifier, timestamp: {$lt: t}} and {key, identifier, timestamp: {$gte: t}}
Older(coll, key, identifier, t) ==
    {d \in DOMAIN coll : d.key = key /\ d.identifier = identifier /\ d.timestamp < t}
InWindow(coll, key, identifier, t) ==
    {d \in DOMAIN coll : d.key = key /\ d.identifier = identifier /\ d.timestamp >= t}
InsertOne(coll, doc) == coll (+) SetToBag({doc})

Max(a, b) == IF a >= b THEN a ELSE b

\* check_rate_limit with ">" in place of ">="
CheckRateLimitOffByOne(coll, t, key, limit, window_seconds, identifier) ==
    LET window_start == t - window_seconds
        kept == DeleteMany(coll, Older(coll, key, identifier, window_start))
        current_count == CountDocuments(kept, InWindow(kept, key, identifier, window_start))
    IN  IF current_count > limit
        THEN [allowed |-> FALSE, coll |-> kept]
        ELSE [allowed |-> TRUE,
              coll |-> InsertOne(kept, [key |-> key, identifier |-> identifier,
                                        timestamp |-> t,
                                        expires_at |-> t + window_seconds])]

\* check_rate_limit that counts the request being checked
CheckRateLimitDeniesEarly(coll, t, key, limit, window_seconds, identifier) ==
    LET window_start == t - window_seconds
        kept == DeleteMany(coll, Older(coll, key, identifier, window_start))
        current_count == CountDocuments(kept, InWindow(kept, key, identifier, window_start))
    IN  IF current_count + 1 >= limit
        THEN [allowed |-> FALSE, coll |-> kept]
        ELSE [allowed |-> TRUE,
              coll |-> InsertOne(kept, [key |-> key, identifier |-> identifier,
                                        timestamp |-> t,
                                        expires_at |-> t + window_seconds])]

\* check_rate_limit with insert_one placed before the limit test
CheckRateLimitRecordsDenied(coll, t, key, limit, window_seconds, identifier) ==
    LET window_start == t - window_seconds
        kept == DeleteMany(coll, Older(coll, key, identifier, window_start))
        current_count == CountDocuments(kept, InWindow(kept, key, identifier, window_start))
        recorded == InsertOne(kept, [key |-> key, identifier |-> identifier,
                                     timestamp |-> t,
                                     expires_at |-> t + window_seconds])
    IN  [allowed |-> current_count < limit, coll |-> recorded]

\* check_rate_limit called at time t: the verdict and the collection it leaves
CheckRateLimit(coll, t, key, limit, window_seconds, identifier) ==
    LET window_start == t - window_seconds
        kept == DeleteMany(coll, Older(coll, key, identifier, window_start))
        current_count == CountDocuments(kept, InWindow(kept, key, identifier, window_start))
    IN  IF current_count >= limit
        THEN [allowed |-> FALSE, coll |-> kept]
        ELSE [allowed |-> TRUE,
              coll |-> InsertOne(kept, [key |-> key, identifier |-> identifier,
                                        timestamp |-> t,
                                        expires_at |-> t + window_seconds])]

\* get_remaining_requests: <<remaining, reset_time>>
GetRemainingRequests(coll, t, key, limit, window_seconds, identifier) ==
    LET window_start == t - window_seconds
        current_count == CountDocuments(coll, InWindow(coll, key, identifier, window_start))
        remaining == Max(0, limit - current_count)
        oldest_request == FindOldest(coll, InWindow(coll, key, identifier, window_start))
        reset_time == IF oldest_request # << >>
                      THEN oldest_request[1].timestamp + window_seconds - t
                      ELSE 0
    IN  <<remaining, Max(0, reset_time)>>

rate_limit_per_minute == 60

\* the limits tables: <<limit, window>> of a request type
UserLimits(request_type) ==
    CASE request_type = "general" -> <<rate_limit_per_minute, 60>>
      [] request_type = "chat" -> <<30, 60>>
      [] request_type = "file_upload" -> <<10, 60>>
      [] request_type = "export" -> <<5, 3600>>
      [] OTHER -> <<60, 60>>

IpLimits(request_type) ==
    CASE request_type = "general" -> <<30, 60>>
      [] request_type = "auth" -> <<10, 60>>
      [] request_type = "registration" -> <<3, 3600>>
      [] OTHER -> <<30, 60>>

UserKey(user_id) == "user:" \o user_id
IpKey(ip_address) == "ip:" \o ip_address

CheckUserRateLimits(coll, t, user_id, request_type) ==
    CheckRateLimit(coll, t, UserKey(user_id), UserLimits(request_type)[1],
                   UserLimits(request_type)[2], request_type)

CheckIpRateLimits(coll, t, ip_address, request_type) ==
    CheckRateLimit(coll, t, IpKey(ip_address), IpLimits(request_type)[1],
                   IpLimits(request_type)[2], request_type)

\* what a handler answered: the status, the headers of an HTTPException, and
\* which check decided (None when no check ran)
Response(route, status, headers, key, identifier, policy) ==
    [route |-> route, status |-> status, headers |-> headers, at |-> now,
     key |-> key, identifier |-> identifier,
     limit |-> policy[1], window |-> policy[2]]

NoResponse == [route |-> None, status |-> 0, headers |-> << >>, at |-> 0,
               key |-> None, identifier |-> None, limit |-> 0, window |-> 0]

NoHeaders == << >>
RetryAfter(text) == [h \in {"Retry-After"} |-> text]
RetryAfterRemaining(reset_time, remaining) ==
    [h \in {"Retry-After", "X-RateLimit-Remaining"} |->
        IF h = "Retry-After" THEN ToString(reset_time) ELSE ToString(remaining)]

Admit(key, identifier) ==
    admitted (+) SetToBag({[key |-> key, identifier |-> identifier, timestamp |-> now]})

\* the clock advances; bodies keeps the last 60 seconds only
Tick(d) ==
    /\ ticks < MaxTicks
    /\ ticks' = ticks + 1
    /\ now' = now + d
    /\ bodies' = DeleteMany(bodies, {b \in DOMAIN bodies : b.at <= now' - 60})
    /\ UNCHANGED <<rate_limits, response, admitted>>
    /\ UNCHANGED svars
    /\ UNCHANGED gvars

\* register and login: check_ip_rate_limits first, a fixed Retry-After on
\* denial; what follows the check does not touch db.rate_limits and answers
\* one of outcomes
IpChecked(route, ip_address, request_type, retry_after, outcomes) ==
    LET r == CheckIpRateLimits(rate_limits, now, ip_address, request_type)
    IN  /\ rate_limits' = r.coll
        /\ IF r.allowed
           THEN /\ admitted' = Admit(IpKey(ip_address), request_type)
                /\ \E status \in outcomes :
                      response' = Response(route, status, NoHeaders, IpKey(ip_address),
                                           request_type, IpLimits(request_type))
           ELSE /\ admitted' = admitted
                /\ response' = Response(route, 429, RetryAfter(retry_after),
                                        IpKey(ip_address), request_type,
                                        IpLimits(request_type))
        /\ UNCHANGED <<now, ticks, bodies>>
        /\ UNCHANGED svars
        /\ UNCHANGED gvars

Register(ip_address) ==
    /\ ip_address # None
    /\ IpChecked("register", ip_address, "registration", "3600", {200, 400})

Login(ip_address) ==
    /\ ip_address # None
    /\ IpChecked("login", ip_address, "auth", "60", {200, 401})

\* faulty variant: {"expires_at": {"$lte": now}}
ExpiredOrExpiring(coll, t) == {d \in DOMAIN coll : d.expires_at <= t}

\* the documents matching {"expires_at": {"$lt": now}}
Expired(coll, t) == {d \in DOMAIN coll : d.expires_at < t}

\* cleanup_expired_rate_limits, run by periodic_cleanup
CleanupExpiredRateLimits ==
    /\ rate_limits' = DeleteMany(rate_limits, Expired(rate_limits, now))
    /\ rate_limits' # rate_limits
    /\ UNCHANGED <<now, ticks, response, admitted, bodies>>
    /\ UNCHANGED svars
    /\ UNCHANGED gvars

\* rate_limit_decorator(request_type).wrapper(*args, **kwargs): the Request is
\* looked for among the positional arguments (<< >> when there is none),
\* the user in kwargs
FirstRequest(args) ==
    LET hits == {i \in DOMAIN args : args[i].class = "Request"}
    IN  IF hits = {} THEN << >>
        ELSE <<args[CHOOSE i \in hits : \A j \in hits : i <= j]>>

Body(route, user_id, request_type) ==
    /\ BagCardinality(bodies) < MaxBodies
    /\ bodies' = bodies (+) SetToBag({[route |-> route, user_id |-> user_id,
                                       request_type |-> request_type, at |-> now]})

Wrapper(route, request_type, args, current_user) ==
    LET request == FirstRequest(args)
        ip == CheckIpRateLimits(rate_limits, now, request[1].client, request_type)
        usr == CheckUserRateLimits(ip.coll, now, current_user, request_type)
        rem == GetRemainingRequests(usr.coll, now, UserKey(current_user), 60, 60,
                                    request_type)
    IN  /\ IF request = << >>
           THEN /\ Body(route, current_user, request_type)
                /\ response' = [NoResponse EXCEPT !.route = route, !.status = 200,
                                                  !.at = now]
                /\ UNCHANGED <<rate_limits, admitted>>
           ELSE IF ~ip.allowed
           THEN /\ rate_limits' = ip.coll
                /\ response' = Response(route, 429, RetryAfter("60"),
                                        IpKey(request[1].client), request_type,
                                        IpLimits(request_type))
                /\ UNCHANGED <<admitted, bodies>>
           ELSE IF current_user # None /\ ~usr.allowed
           THEN /\ rate_limits' = usr.coll
                /\ admitted' = Admit(IpKey(request[1].client), request_type)
                /\ response' = Response(route, 429, RetryAfterRemaining(rem[2], rem[1]),
                                        UserKey(current_user), request_type,
                                        UserLimits(request_type))
                /\ UNCHANGED bodies
           ELSE /\ rate_limits' = IF current_user # None THEN usr.coll ELSE ip.coll
                /\ admitted' =
                      IF current_user # None
                      THEN Admit(IpKey(request[1].client), request_type)
                              (+) SetToBag({[key |-> UserKey(current_user),
                                             identifier |-> request_type,
                                             timestamp |-> now]})
                      ELSE Admit(IpKey(request[1].client), request_type)
                /\ Body(route, current_user, request_type)
                /\ response' = Response(route, 200, NoHeaders, 
                                        IF current_user # None
                                        THEN UserKey(current_user)
                                        ELSE IpKey(request[1].client),
                                        request_type,
                                        IF current_user # None
                                        THEN UserLimits(request_type)
                                        ELSE IpLimits(request_type))
        /\ UNCHANGED <<now, ticks>>
        /\ UNCHANGED svars
        /\ UNCHANGED gvars

\* the decorated routes; the framework passes every parameter by keyword,
\* and none of the three declares a Request parameter; get_current_user has
\* authenticated the caller
CreateChat(current_user) ==
    /\ current_user # None
    /\ Wrapper("create_chat", "chat", << >>, current_user)

SendMessage(current_user) ==
    /\ current_user # None
    /\ Wrapper("send_message", "chat", << >>, current_user)

UploadFile(current_user) ==
    /\ current_user # None
    /\ Wrapper("upload_file", "file_upload", << >>, current_user)

\* the wrapper around a handler that is called with its Request as a
\* positional argument
Decorated(request_type, ip_address, current_user) ==
    /\ ip_address # None
    /\ Wrapper("decorated", request_type,
               <<[class |-> "Request", client |-> ip_address]>>, current_user)

(***************************************************************************)
(* ai_service.py: token estimation and truncate_messages_to_fit_context.   *)
(* A text is known by its length in characters and by the number of tokens *)
(* tiktoken's encoding gives it.                                           *)
(***************************************************************************)
MaxTurns == 5

Contents ==
    {[chars |-> 3, bpe |-> 1], [chars |-> 160, bpe |-> 40], [chars |-> 163, bpe |-> 50]}

\* system_prompt: None, the empty text, or a text
SystemPrompts == {<< >>, <<[chars |-> 0, bpe |-> 0]>>, <<[chars |-> 80, bpe |-> 20]>>}

ClaudeModels == {"claude-3-opus-20240229", "claude-3-sonnet-20240229"}

\* the models tiktoken.encoding_for_model knows
TiktokenModels == {"gpt-3.5-turbo", "gpt-4", "gpt-4-turbo"}

\* the model names truncation is called with; "custom" is in no table
ModelKeys == {"gpt-3.5-turbo", "gpt-4", "claude-3-sonnet-20240229", "custom"}

\* self.token_limits.get(model_key, 4096)
TokenLimit(model_key) ==
    CASE model_key = "gpt-3.5-turbo" -> 4096
      [] model_key = "gpt-4" -> 8192
      [] model_key = "gpt-4-turbo" -> 128000
      [] model_key \in ClaudeModels -> 200000
      [] OTHER -> 4096

\* the max_tokens a caller reserves for the response: values that leave 80
\* or 100 tokens of a model's limit, or exceed it
MaxTokensFor(model_key) ==
    {TokenLimit(model_key) - 80, TokenLimit(model_key) - 100, TokenLimit(model_key) + 4}

\* faulty variant: no except clause: the tokenizer's exception leaves count_tokens
CountTokensUnmasked(text, model, tiktoken_ok) ==
    IF model \in ClaudeModels THEN [raised |-> FALSE, tokens |-> text.chars \div 4]
    ELSE IF model \in TiktokenModels /\ tiktoken_ok
    THEN [raised |-> FALSE, tokens |-> text.bpe]
    ELSE [raised |-> TRUE, tokens |-> 0]

\* count_tokens(text, model): the try block (tiktoken_ok: encoding_for_model
\* knows the model and could load its encoding), then the except clause;
\* raised: an exception leaves the function
CountTokensOutcome(text, model, tiktoken_ok) ==
    IF model \in ClaudeModels THEN [raised |-> FALSE, tokens |-> text.chars \div 4]
    ELSE IF model \in TiktokenModels /\ tiktoken_ok
    THEN [raised |-> FALSE, tokens |-> text.bpe]
    ELSE [raised |-> FALSE, tokens |-> text.chars \div 4]

\* the value count_tokens(text, model) returns
CountTokens(text, model, tiktoken_ok) == CountTokensOutcome(text, model, tiktoken_ok).tokens

\* truncate_messages_to_fit_context is left by an exception of count_tokens:
\* of the system prompt's, or of the first message's the loop visits
TruncateRaises(messages, model_key, system_prompt, tiktoken_ok) ==
    \/ /\ system_prompt # << >>
       /\ system_prompt[1].chars > 0
       /\ CountTokensOutcome(system_prompt[1], model_key, tiktoken_ok).raised
    \/ /\ messages # << >>
       /\ CountTokensOutcome(messages[Len(messages)].content, model_key,
                             tiktoken_ok).raised

\* faulty variant: the system prompt is not deducted
AvailableTokensIgnoresSystem(model_key, system_prompt, max_tokens, tiktoken_ok) ==
    TokenLimit(model_key) - max_tokens

\* available_tokens: the limit less the response reserve and the system prompt
AvailableTokens(model_key, system_prompt, max_tokens, tiktoken_ok) ==
    IF system_prompt # << >> /\ system_prompt[1].chars > 0
    THEN TokenLimit(model_key) - max_tokens
            - CountTokens(system_prompt[1], model_key, tiktoken_ok)
    ELSE TokenLimit(model_key) - max_tokens

\* faulty variant: "<" in place of "<="
FitsStrictly(current_tokens, message_tokens, available_tokens) ==
    current_tokens + message_tokens < available_tokens

Fits(current_tokens, message_tokens, available_tokens) ==
    current_tokens + message_tokens <= available_tokens

RECURSIVE TruncateLoopContinue(_, _, _, _, _, _, _)
\* faulty variant: "continue" in place of "break"
TruncateLoopContinue(messages, i, truncated, current, available, model_key, tiktoken_ok) ==
    IF i = 0 THEN truncated
    ELSE LET message_tokens == CountTokens(messages[i].content, model_key, tiktoken_ok)
         IN  IF Fits(current, message_tokens, available)
             THEN TruncateLoopContinue(messages, i - 1, <<messages[i]>> \o truncated,
                                       current + message_tokens, available,
                                       model_key, tiktoken_ok)
             ELSE TruncateLoopContinue(messages, i - 1, truncated, current, available,
                                       model_key, tiktoken_ok)

RECURSIVE TruncateLoop(_, _, _, _, _, _, _)
\* for message in reversed(messages), at messages[i]
TruncateLoop(messages, i, truncated, current, available, model_key, tiktoken_ok) ==
    IF i = 0 THEN truncated
    ELSE LET message_tokens == CountTokens(messages[i].content, model_key, tiktoken_ok)
         IN  IF Fits(current, message_tokens, available)
             THEN TruncateLoop(messages, i - 1, <<messages[i]>> \o truncated,
                               current + message_tokens, available,
                               model_key, tiktoken_ok)
             ELSE truncated

TruncateMessagesToFitContext(messages, model_key, system_prompt, max_tokens, tiktoken_ok) ==
    TruncateLoop(messages, Len(messages), << >>, 0,
                 AvailableTokens(model_key, system_prompt, max_tokens, tiktoken_ok),
                 model_key, tiktoken_ok)

NoFit == [called |-> FALSE, messages |-> << >>, model |-> None, system_prompt |-> << >>,
          max_tokens |-> 0, tiktoken_ok |-> TRUE, result |-> << >>, raised |-> FALSE]

\* a message is added to the chat; fit describes a call on the chat as it is
AppendMessage(content) ==
    /\ Len(history) < MaxTurns
    /\ history' = Append(history, [id |-> Len(history) + 1, content |-> content])
    /\ fit' = NoFit
    /\ UNCHANGED generation
    /\ UNCHANGED <<svars, rvars, tvars, cvars>>

\* truncate_messages_to_fit_context is called on the chat's messages
Truncate(model_key, system_prompt, max_tokens, tiktoken_ok) ==
    /\ fit' = [called |-> TRUE, messages |-> history, model |-> model_key,
               system_prompt |-> system_prompt, max_tokens |-> max_tokens,
               tiktoken_ok |-> tiktoken_ok,
               result |-> TruncateMessagesToFitContext(history, model_key, system_prompt,
                                                       max_tokens, tiktoken_ok),
               raised |-> TruncateRaises(history, model_key, system_prompt, tiktoken_ok)]
    /\ UNCHANGED <<history, generation>>
    /\ UNCHANGED <<svars, rvars, tvars, cvars>>

(***************************************************************************)
(* ai_service.py: generate_response and the two provider calls, each under *)
(* @retry(stop=stop_after_attempt(3), wait=wait_exponential(...)).         *)
(***************************************************************************)
stop_after_attempt == 3

\* ModelName values a chat may carry
ModelNames == {"alpha-origin", "gpt-4", "claude-3-opus"}

\* generate_response: the Claude branch is taken for the two Claude names
IsClaude(model) == model \in {"claude-3-opus", "claude-3-sonnet"}

\* self.model_mappings
ModelMapping(model) ==
    CASE model = "alpha-origin" -> "gpt-3.5-turbo"
      [] model = "alpha-prime" -> "gpt-4-turbo"
      [] model = "gpt-4" -> "gpt-4"
      [] model = "gpt-4-turbo" -> "gpt-4-turbo"
      [] model = "gpt-3.5-turbo" -> "gpt-3.5-turbo"
      [] model = "claude-3-opus" -> "claude-3-opus-20240229"
      [] model = "claude-3-sonnet" -> "claude-3-sonnet-20240229"

\* what a provider call may raise: two transient failures, two permanent ones
ApiErrors == {"timeout", "overloaded", "bad_request", "authentication"}
Transient(e) == e \in {"timeout", "overloaded"}

\* ValueError("... client not initialized")
NotInitialized == "client not initialized"

ApologyText ==
    "I apologize, but I'm experiencing technical difficulties. Please try again in a moment."

NoResult == [kind |-> None, content |-> None, model |-> None, finish_reason |-> None]

\* the dict a provider call returns: {"stream": response} or the completion
ProviderResult(model_name, stream, finish_reason) ==
    IF stream
    THEN [kind |-> "stream", content |-> None, model |-> None, finish_reason |-> None]
    ELSE [kind |-> "completion", content |-> "hello", model |-> model_name,
          finish_reason |-> finish_reason]

\* the fallback response of generate_response
FallbackResult ==
    [kind |-> "completion", content |-> ApologyText, model |-> "fallback",
     finish_reason |-> "error"]

IdleGeneration ==
    [pc |-> "idle", model |-> None, stream |-> FALSE, client |-> FALSE,
     attempt_number |-> 0, requests |-> 0, errors |-> << >>, after_success |-> 0,
     result |-> NoResult, raised |-> FALSE, status |-> 0, stored |-> None]

\* faulty variant: only transient failures are retried
RetryIfTransient(e) == Transient(e)

\* the decorator names no retry condition: every exception is retried
RetryIf(e) == TRUE

\* faulty variant: a fourth attempt is allowed
StopAfterFour(attempt_number) == attempt_number >= stop_after_attempt + 1

\* stop_after_attempt(3)
Stop(attempt_number) == attempt_number >= stop_after_attempt

\* faulty variant: generate_response lets the exception through
ExhaustedRaises(g) == [g EXCEPT !.pc = "returned", !.raised = TRUE]

\* the retrying call gives up and raises; generate_response's except clause
\* returns the fallback response
Exhausted(g) == [g EXCEPT !.pc = "returned", !.result = FallbackResult]

\* an attempt raised e: stop, or wait and try again
AttemptFailed(g, e) ==
    LET g1 == [g EXCEPT !.errors = Append(@, e)]
    IN  IF ~RetryIf(e) \/ Stop(g.attempt_number)
        THEN Exhausted(g1)
        ELSE [g1 EXCEPT !.pc = "wait"]

\* send_message (or generate_stream_response, stream = TRUE) awaits
\* ai_service.generate_response for a chat of this model; client: whether the
\* family's API client was configured
GenerateResponse(model, stream, client) ==
    /\ generation.pc = "idle"
    /\ generation' = [IdleGeneration EXCEPT !.pc = "attempt", !.model = model,
                                            !.stream = stream, !.client = client,
                                            !.attempt_number = 1]
    /\ UNCHANGED <<history, fit>>
    /\ UNCHANGED <<svars, rvars, tvars, cvars>>

\* send_message stores the user's message before it asks for a response
StoreUserMessage(content) ==
    /\ generation.pc = "idle"
    /\ AppendMessage(content)

\* an attempt finds no client and raises ValueError
AttemptNotInitialized ==
    /\ generation.pc = "attempt"
    /\ ~generation.client
    /\ generation' = AttemptFailed(generation, NotInitialized)
    /\ UNCHANGED <<history, fit>>
    /\ UNCHANGED <<svars, rvars, tvars, cvars>>

\* the messages an attempt sends: truncated for the mapped model with the
\* default max_tokens of generate_response, for a chat without system prompt
AttemptTruncation(tiktoken_ok) ==
    [called |-> TRUE, messages |-> history, model |-> ModelMapping(generation.model),
     system_prompt |-> << >>, max_tokens |-> 2000, tiktoken_ok |-> tiktoken_ok,
     result |-> TruncateMessagesToFitContext(history, ModelMapping(generation.model),
                                             << >>, 2000, tiktoken_ok),
     raised |-> TruncateRaises(history, ModelMapping(generation.model), << >>,
                               tiktoken_ok)]

\* an attempt's provider call returns
AttemptReturns(finish_reason) ==
    /\ generation.pc = "attempt"
    /\ generation.client
    /\ \E ok \in BOOLEAN : fit' = AttemptTruncation(ok)
    /\ generation' = [generation EXCEPT
          !.pc = "returned", !.requests = @ + 1,
          !.result = ProviderResult(ModelMapping(generation.model), generation.stream,
                                    finish_reason)]
    /\ UNCHANGED history
    /\ UNCHANGED <<svars, rvars, tvars, cvars>>

\* an attempt's provider call raises e
AttemptRaises(e) ==
    /\ generation.pc = "attempt"
    /\ generation.client
    /\ \E ok \in BOOLEAN : fit' = AttemptTruncation(ok)
    /\ generation' = AttemptFailed([generation EXCEPT !.requests = @ + 1], e)
    /\ UNCHANGED history
    /\ UNCHANGED <<svars, rvars, tvars, cvars>>

\* the wait between two attempts is over
RetryWait ==
    /\ generation.pc = "wait"
    /\ generation' = [generation EXCEPT !.pc = "attempt", !.attempt_number = @ + 1]
    /\ UNCHANGED <<history, fit>>
    /\ UNCHANGED <<svars, rvars, tvars, cvars>>

\* send_message after generate_response: the content becomes the assistant
\* message and the request answers 200; an exception answers 500
SendMessageStores ==
    /\ generation.pc = "returned"
    /\ ~generation.stream
    /\ generation' =
          IF generation.raised
          THEN [generation EXCEPT !.pc = "done", !.status = 500]
          ELSE [generation EXCEPT !.pc = "done", !.status = 200,
                                  !.stored = generation.result.content]
    /\ UNCHANGED <<history, fit>>
    /\ UNCHANGED <<svars, rvars, tvars, cvars>>

\* generate_stream_response after generate_response: response["stream"]
StreamTaken ==
    /\ generation.pc = "returned"
    /\ generation.stream
    /\ generation' =
          IF generation.raised \/ generation.result.kind # "stream"
          THEN [generation EXCEPT !.pc = "done", !.stored = KeyErrorStream]
          ELSE [generation EXCEPT !.pc = "done", !.stored = "stream"]
    /\ UNCHANGED <<history, fit>>
    /\ UNCHANGED <<svars, rvars, tvars, cvars>>

(***************************************************************************)
(* ai_service.py: generate_title.  A text is a sequence of runs [ch, n]:   *)
(* the character ch repeated n times.                                      *)
(***************************************************************************)
title_max_length == 50

\* str.strip() removes whitespace
Whitespace == {"space"}

TextRun(ch, n) == [ch |-> ch, n |-> n]

\* the fallback title "New Chat"
DefaultTitle ==
    <<TextRun("N", 1), TextRun("e", 1), TextRun("w", 1), TextRun("space", 1),
      TextRun("C", 1), TextRun("h", 1), TextRun("a", 1), TextRun("t", 1)>>

\* the runs a completion's text is made of
TitleRuns ==
    {TextRun(ch, n) : ch \in {"space", "dquote", "squote", "a"}, n \in {1, 49, 51}}

\* message.content of the completion: up to two runs, or quoted text
TitleContents ==
    {<< >>}
    \cup {<<r>> : r \in TitleRuns}
    \cup {<<r, q>> : r \in TitleRuns, q \in TitleRuns}
    \cup {<<TextRun(b, 1), r, TextRun(b, 1)>> :
             b \in {"space", "dquote", "squote"}, r \in TitleRuns}

\* how the awaited completion call ends: no client (self.openai_client is
\* None), the call raises, the response has no choice, the choice has no
\* content, or it has content
TitleOutcomes == {"no_client", "raises", "no_choices", "no_content", "content"}

RECURSIVE TextLen(_)
\* len(text)
TextLen(text) ==
    IF text = << >> THEN 0 ELSE Head(text).n + TextLen(Tail(text))

RECURSIVE StripLeft(_, _)
StripLeft(text, chars) ==
    IF text = << >> THEN << >>
    ELSE IF Head(text).ch \in chars THEN StripLeft(Tail(text), chars)
    ELSE text

RECURSIVE StripRight(_, _)
StripRight(text, chars) ==
    IF text = << >> THEN << >>
    ELSE IF text[Len(text)].ch \in chars
    THEN StripRight(SubSeq(text, 1, Len(text) - 1), chars)
    ELSE text

\* text.strip(chars)
Strip(text, chars) == StripRight(StripLeft(text, chars), chars)

RECURSIVE Slice(_, _)
\* text[:k]
Slice(text, k) ==
    IF text = << >> \/ k <= 0 THEN << >>
    ELSE IF Head(text).n <= k
    THEN <<Head(text)>> \o Slice(Tail(text), k - Head(text).n)
    ELSE <<TextRun(Head(text).ch, k)>>

\* faulty variant: the title is not cut
TitleOfUncut(content) ==
    Strip(Strip(Strip(content, Whitespace), {"dquote"}), {"squote"})

\* content.strip().strip('"').strip("'")[:50]
TitleOf(content) ==
    Slice(Strip(Strip(Strip(content, Whitespace), {"dquote"}), {"squote"}),
          title_max_length)

NoTitle ==
    [called |-> FALSE, outcome |-> None, content |-> << >>, result |-> << >>,
     raised |-> FALSE]

\* faulty variant: no except clause: the failure leaves generate_title
TitleFailureRaises(outcome) ==
    [called |-> TRUE, outcome |-> outcome, content |-> << >>, result |-> << >>,
     raised |-> TRUE]

\* except Exception: return "New Chat"
TitleFailure(outcome) ==
    [called |-> TRUE, outcome |-> outcome, content |-> << >>,
     result |-> DefaultTitle, raised |-> FALSE]

\* one generate_title call: every failure inside the try block, the missing
\* client included, ends in the except clause
GenerateTitle(outcome, content) ==
    /\ title' = IF outcome = "content"
                THEN [called |-> TRUE, outcome |-> outcome, content |-> content,
                      result |-> TitleOf(content), raised |-> FALSE]
                ELSE TitleFailure(outcome)
    /\ UNCHANGED <<history, fit, generation>>
    /\ UNCHANGED xvars
    /\ UNCHANGED <<svars, rvars, cvars>>

(***************************************************************************)
(* rate_limiter.py: check_rate_limit step by step.  Each await on           *)
(* db.rate_limits is one step, so calls of different requests interleave    *)
(* between the delete, the count and the insert.                            *)
(***************************************************************************)
\* the requests whose check_rate_limit calls are in flight at the same time
Callers == {"c1", "c2", "c3"}

\* the (key, category) the racing calls are about: registrations from one IP
RaceKey == IpKey("ip1")
RaceIdentifier == "registration"
RaceLimit == IpLimits(RaceIdentifier)[1]
RaceWindow == IpLimits(RaceIdentifier)[2]

IdleCall == [pc |-> "idle", now |-> 0, current_count |-> 0, result |-> None]

\* faulty variant: if current_count > limit
CountExceedsStrictly(current_count, limit) == current_count > limit

\* if current_count >= limit
CountExceeds(current_count, limit) == current_count >= limit

\* now = datetime.utcnow(); window_start = now - window
AdmitStart(p) ==
    /\ calls[p].pc = "idle"
    /\ calls' = [calls EXCEPT ![p] = [IdleCall EXCEPT !.pc = "delete", !.now = now]]
    /\ UNCHANGED rvars
    /\ UNCHANGED svars
    /\ UNCHANGED <<history, fit, generation, tvars, broadcast>>

\* await delete_many(timestamp < window_start)
AdmitDelete(p) ==
    /\ calls[p].pc = "delete"
    /\ rate_limits' = DeleteMany(rate_limits,
                                 Older(rate_limits, RaceKey, RaceIdentifier,
                                       calls[p].now - RaceWindow))
    /\ calls' = [calls EXCEPT ![p].pc = "count"]
    /\ UNCHANGED <<now, ticks, response, admitted, bodies>>
    /\ UNCHANGED svars
    /\ UNCHANGED <<history, fit, generation, tvars, broadcast>>

\* await count_documents(timestamp >= window_start), then the test
AdmitCount(p) ==
    /\ calls[p].pc = "count"
    /\ LET current_count ==
              CountDocuments(rate_limits,
                             InWindow(rate_limits, RaceKey, RaceIdentifier,
                                      calls[p].now - RaceWindow))
       IN  calls' = [calls EXCEPT ![p] =
              IF CountExceeds(current_count, RaceLimit)
              THEN [@ EXCEPT !.pc = "idle", !.current_count = current_count,
                             !.result = "deny"]
              ELSE [@ EXCEPT !.pc = "insert", !.current_count = current_count]]
    /\ UNCHANGED rvars
    /\ UNCHANGED svars
    /\ UNCHANGED <<history, fit, generation, tvars, broadcast>>

\* await insert_one(...), return True
AdmitInsert(p) ==
    /\ calls[p].pc = "insert"
    /\ rate_limits' = InsertOne(rate_limits,
                                [key |-> RaceKey, identifier |-> RaceIdentifier,
                                 timestamp |-> calls[p].now,
                                 expires_at |-> calls[p].now + RaceWindow])
    /\ calls' = [calls EXCEPT ![p] = [@ EXCEPT !.pc = "idle", !.result = "allow"]]
    /\ UNCHANGED <<now, ticks, response, admitted, bodies>>
    /\ UNCHANGED svars
    /\ UNCHANGED <<history, fit, generation, tvars, broadcast>>

(***************************************************************************)
(* ConnectionManager.broadcast_system_message: a for loop over the dict    *)
(* active_connections itself, awaiting send_to_user for each key.  The     *)
(* dict iterator raises RuntimeError when the dict's keys are no longer    *)
(* the ones it started with.  Each user has one socket here, so a key that *)
(* was deleted never comes back and comparing key sets is exact.           *)
(***************************************************************************)
BroadcastSockets == {"w1", "w3"}

SystemFrame == Frame("system", None, NoChunk, None, None)

IdleBroadcast ==
    [pc |-> "idle", keys |-> {}, order |-> << >>, pos |-> 0, pending |-> {},
     disconnected |-> {}, attempted |-> {}, raised |-> FALSE]

\* the orders in which the dict may hold the keys
KeyOrders(keys) ==
    {o \in UNION {[1..n -> keys] : n \in {Cardinality(keys)}} :
        \A i \in DOMAIN o, j \in DOMAIN o : i # j => o[i] # o[j]}

\* the for statement asks the dict iterator for its next key while the dict
\* is ac: RuntimeError if the keys changed, the end of the loop if none is
\* left, else send_to_user(key, data) up to its first await
IterNext(b, ac) ==
    IF DOMAIN ac # b.keys
    THEN [b EXCEPT !.pc = "done", !.raised = TRUE, !.pending = {}, !.disconnected = {}]
    ELSE IF b.pos >= Len(b.order)
    THEN [b EXCEPT !.pc = "done", !.pending = {}, !.disconnected = {}]
    ELSE LET u == b.order[b.pos + 1]
         IN  [b EXCEPT !.pc = "send", !.pos = @ + 1, !.attempted = @ \cup {u},
                       !.disconnected = {}, !.pending = ac[u]]

\* broadcast_system_message is called
BroadcastStart ==
    /\ broadcast.pc = "idle"
    /\ \E order \in KeyOrders(DOMAIN active_connections) :
          broadcast' = IterNext([IdleBroadcast EXCEPT
                                    !.keys = DOMAIN active_connections,
                                    !.order = order],
                                active_connections)
    /\ UNCHANGED calls
    /\ UNCHANGED <<history, fit, generation, tvars>>
    /\ UNCHANGED <<svars, rvars>>

\* one websocket.send_text of the send_to_user call the broadcast is in;
\* after the last one the failed sockets are disconnected and the loop asks
\* for its next key
BroadcastSendOne ==
    /\ broadcast.pc = "send"
    /\ \E ws \in broadcast.pending :
          LET ok == transport[ws] = "open"
              b1 == [broadcast EXCEPT
                        !.pending = @ \ {ws},
                        !.disconnected = IF ok THEN @ ELSE @ \cup {ws}]
              last == b1.pending = {}
              maps == IF last
                      THEN DisconnectAll(active_connections, connection_users,
                                         b1.disconnected)
                      ELSE [ac |-> active_connections, cu |-> connection_users]
          IN  /\ received' = IF ok THEN [received EXCEPT ![ws] = Append(@, SystemFrame)]
                             ELSE received
              /\ active_connections' = maps.ac
              /\ connection_users' = maps.cu
              /\ broadcast' = IF last THEN IterNext(b1, maps.ac) ELSE b1
    /\ UNCHANGED <<transport, endpoint, runs>>
    /\ UNCHANGED calls
    /\ UNCHANGED <<history, fit, generation, tvars>>
    /\ UNCHANGED rvars

(***************************************************************************)
(* ai_service.py: the request generate_response_openai and                 *)
(* generate_response_claude build: truncation, then the family's format.   *)
(***************************************************************************)
\* MessageType
MessageTypes == {"user", "assistant", "system"}

\* role = "user" if message.type == MessageType.USER else "assistant"
Role(type) == IF type = "user" THEN "user" ELSE "assistant"

\* the {"role", "content"} entries of the messages, in their order
Turns(messages) ==
    [i \in 1..Len(messages) |->
        [role |-> Role(messages[i].type), content |-> messages[i].content]]

\* `if system_prompt:`: neither None nor the empty text
HasSystemPrompt(system_prompt) == system_prompt # << >> /\ system_prompt[1].chars > 0

EmptyText == [chars |-> 0, bpe |-> 0]

\* faulty variant: the system entry is appended after the turns
FormatMessagesForOpenaiSystemLast(messages, system_prompt) ==
    [messages |-> Turns(messages)
                     \o (IF HasSystemPrompt(system_prompt)
                         THEN <<[role |-> "system", content |-> system_prompt[1]]>>
                         ELSE << >>),
     system |-> << >>]

\* format_messages_for_openai, and the arguments of chat.completions.create:
\* no "system" argument
FormatMessagesForOpenai(messages, system_prompt) ==
    [messages |-> (IF HasSystemPrompt(system_prompt)
                   THEN <<[role |-> "system", content |-> system_prompt[1]]>>
                   ELSE << >>) \o Turns(messages),
     system |-> << >>]

\* faulty variant: the system prompt is also put in front of the turns
FormatMessagesForClaudeInline(messages, system_prompt) ==
    [messages |-> (IF HasSystemPrompt(system_prompt)
                   THEN <<[role |-> "system", content |-> system_prompt[1]]>>
                   ELSE << >>) \o Turns(messages),
     system |-> <<IF HasSystemPrompt(system_prompt) THEN system_prompt[1] ELSE EmptyText>>]

\* format_messages_for_claude, and the arguments of messages.create:
\* system = system_prompt or ""
FormatMessagesForClaude(messages, system_prompt) ==
    [messages |-> Turns(messages),
     system |-> <<IF HasSystemPrompt(system_prompt) THEN system_prompt[1] ELSE EmptyText>>]

NoRequest ==
    [called |-> FALSE, family |-> None, model |-> None, input |-> << >>,
     system_prompt |-> << >>, max_tokens |-> 0, tiktoken_ok |-> TRUE,
     messages |-> << >>, system |-> << >>]

\* a message of a type is added to the chat
AppendTurn(content, type) ==
    /\ Len(history) < MaxTurns
    /\ history' = Append(history, [id |-> Len(history) + 1, content |-> content,
                                   type |-> type])
    /\ shaped' = NoRequest
    /\ UNCHANGED <<inbox, posting, title>>
    /\ UNCHANGED <<fit, generation>>
    /\ UNCHANGED <<svars, rvars, cvars>>

\* generate_response_openai or generate_response_claude (by the model's
\* family) up to its create call, for the chat's messages
ShapeRequest(model, system_prompt, max_tokens, tiktoken_ok) ==
    LET model_name == ModelMapping(model)
        truncated_messages ==
            TruncateMessagesToFitContext(history, model_name, system_prompt,
                                         max_tokens, tiktoken_ok)
        formatted == IF IsClaude(model)
                     THEN FormatMessagesForClaude(truncated_messages, system_prompt)
                     ELSE FormatMessagesForOpenai(truncated_messages, system_prompt)
    IN  /\ shaped' = [called |-> TRUE,
                      family |-> IF IsClaude(model) THEN "claude" ELSE "openai",
                      model |-> model_name, input |-> history,
                      system_prompt |-> system_prompt, max_tokens |-> max_tokens,
                      tiktoken_ok |-> tiktoken_ok,
                      messages |-> formatted.messages, system |-> formatted.system]
        /\ UNCHANGED <<inbox, posting, title>>
        /\ UNCHANGED <<history, fit, generation>>
        /\ UNCHANGED <<svars, rvars, cvars>>

(***************************************************************************)
(* websocket_routes.py: the receive loop of websocket_endpoint.  The       *)
(* messages a client has sent wait in the socket's queue until the         *)
(* endpoint is back at receive_text.                                       *)
(***************************************************************************)
\* messages one client sends at most
MaxInbox == 3

\* what a client sends: the three message types, or a text json.loads or
\* message.get fails on
ClientMessages == {"ping", "typing", "stream_request", "malformed"}

\* queue: sent and not yet read; sent, pings: how many messages, and how
\* many pings among them, the client has sent
EmptyInbox == [queue |-> << >>, sent |-> 0, pings |-> 0]

PongFrame == Frame("pong", None, NoChunk, None, None)

\* send_typing_indicator's frame
TypingIndicator(chat_id, is_typing) ==
    [type |-> "typing", message_id |-> None, chunk |-> NoChunk, full_content |-> None,
     error |-> None, chat_id |-> chat_id, is_typing |-> is_typing]

\* the indicator of a "typing" message that names no chat: is_typing
\* defaults to False
TypingFrame == TypingIndicator(None, FALSE)

\* the stream requests that have a message id: those waiting in a queue and
\* those whose run has started
RequestsAhead ==
    Cardinality({p \in Sockets \X (1..MaxInbox) :
                    /\ p[2] <= Len(inbox[p[1]].queue)
                    /\ inbox[p[1]].queue[p[2]] = "stream_request"})
    + Cardinality({m \in Runs : runs[m].pc # "idle"})

\* the client of ws sends a message; a stream request takes one of the
\* message ids of Runs
ClientSends(ws, kind) ==
    /\ endpoint[ws].pos \in {"connecting", "loop"}
    /\ transport[ws] = "open"
    /\ inbox[ws].sent < MaxInbox
    /\ kind = "stream_request" => RequestsAhead < Cardinality(Runs)
    /\ inbox' = [inbox EXCEPT ![ws] =
          [queue |-> Append(@.queue, kind), sent |-> @.sent + 1,
           pings |-> @.pings + (IF kind = "ping" THEN 1 ELSE 0)]]
    /\ UNCHANGED <<shaped, posting, title>>
    /\ UNCHANGED <<history, fit, generation>>
    /\ UNCHANGED <<svars, rvars, cvars>>

\* receive_text returns the message at the head of the queue of ws
Received(ws, kind) ==
    /\ endpoint[ws].pos = "loop"
    /\ ~Busy(ws)
    /\ inbox[ws].queue # << >>
    /\ Head(inbox[ws].queue) = kind
    /\ inbox' = [inbox EXCEPT ![ws].queue = Tail(@)]

\* "ping": send_personal_message of the pong, which disconnects ws when the
\* send raises
ReceivePing(ws) ==
    /\ Received(ws, "ping")
    /\ IF transport[ws] = "open"
       THEN /\ received' = [received EXCEPT ![ws] = Append(@, PongFrame)]
            /\ UNCHANGED <<active_connections, connection_users>>
       ELSE LET m == DisconnectMaps(active_connections, connection_users, ws)
            IN  /\ active_connections' = m.ac
                /\ connection_users' = m.cu
                /\ UNCHANGED received
    /\ UNCHANGED <<transport, endpoint, runs>>
    /\ UNCHANGED <<shaped, posting, title>>
    /\ UNCHANGED <<history, fit, generation>>
    /\ UNCHANGED <<rvars, cvars>>

\* "typing": send_typing_indicator, a send_to_user to the user's sockets;
\* the sockets whose send raises are disconnected
ReceiveTyping(ws) ==
    /\ Received(ws, "typing")
    /\ LET sockets == Recipients(endpoint[ws].user_id)
           failed == {w \in sockets : transport[w] # "open"}
           maps == DisconnectAll(active_connections, connection_users, failed)
       IN  /\ received' = [w \in Sockets |->
                              IF w \in sockets \ failed
                              THEN Append(received[w], TypingFrame)
                              ELSE received[w]]
           /\ active_connections' = maps.ac
           /\ connection_users' = maps.cu
    /\ UNCHANGED <<transport, endpoint, runs>>
    /\ UNCHANGED <<shaped, posting, title>>
    /\ UNCHANGED <<history, fit, generation>>
    /\ UNCHANGED <<rvars, cvars>>

\* a text the loop cannot handle is at the head of the queue: the exception
\* ends the loop, and the text is the last one read
ReceiveMalformed(ws) ==
    /\ inbox[ws].queue # << >>
    /\ Head(inbox[ws].queue) = "malformed"
    /\ EndpointExit(ws)

\* the client is gone and everything it sent has been read: receive_text
\* raises WebSocketDisconnect
ReceiveDisconnect(ws) ==
    /\ inbox[ws].queue = << >>
    /\ transport[ws] = "closed"
    /\ EndpointExit(ws)

\* "stream_request": handle_stream_request is awaited; it starts run m
ReceiveStreamRequest(ws, m, source) ==
    /\ Received(ws, "stream_request")
    /\ runs[m].pc = "idle"
    /\ \A k \in Before(m) : runs[k].pc # "idle"
    /\ runs' = [runs EXCEPT ![m] = RequestedRun(ws, m, source)]
    /\ UNCHANGED <<active_connections, connection_users, transport, endpoint, received>>
    /\ UNCHANGED <<shaped, posting, title>>
    /\ UNCHANGED <<history, fit, generation>>
    /\ UNCHANGED <<rvars, cvars>>

(***************************************************************************)
(* chat_routes.py: send_message from its typing indicator on.  Each        *)
(* send_to_user is a fan-out over the sockets the user has when it starts, *)
(* one send_text per step.                                                 *)
(***************************************************************************)
Chats == {"chat1", "chat2"}

IdlePosting ==
    [pc |-> "idle", user_id |-> None, chat_id |-> None, pending |-> {},
     disconnected |-> {}, emitted |-> << >>, status |-> 0]

\* send_chat_message and send_chat_update frames
ChatMessageFrame(chat_id) ==
    [type |-> "chat_message", message_id |-> None, chunk |-> NoChunk,
     full_content |-> None, error |-> None, chat_id |-> chat_id, is_typing |-> None]
ChatUpdateFrame(chat_id) ==
    [type |-> "chat_update", message_id |-> None, chunk |-> NoChunk,
     full_content |-> None, error |-> None, chat_id |-> chat_id, is_typing |-> None]

\* where send_message is once the send_to_user call it is in has returned
PostAfterSend(p) ==
    CASE p.pc = "typing_on" -> [p EXCEPT !.pc = "generate"]
      [] p.pc = "title_update" -> [p EXCEPT !.pc = "deliver"]
      [] p.pc = "ai_message" -> [p EXCEPT !.pc = "stop_typing"]
      [] p.pc = "typing_off" -> [p EXCEPT !.pc = "done", !.status = 200]
      [] p.pc = "typing_off_error" -> [p EXCEPT !.pc = "done", !.status = 500]

\* send_message entering send_to_user(user_id, frame) at position pc
PostBeginSend(p, pc, frame) ==
    LET p1 == [p EXCEPT !.pc = pc, !.emitted = Append(@, frame),
                        !.pending = Recipients(p.user_id), !.disconnected = {}]
    IN  IF p1.pending = {} THEN PostAfterSend(p1) ELSE p1

\* faulty variant: the except clause raises without stopping the indicator
PostFailsSilently(p) == [p EXCEPT !.pc = "done", !.status = 500]

\* an exception inside the try block: the except clause sends the typing
\* indicator off and raises HTTPException(500)
PostFails(p) == PostBeginSend(p, "typing_off_error", TypingIndicator(p.chat_id, FALSE))

\* send_message reaches its try block: send_typing_indicator(..., True)
PostStart(u, chat_id) ==
    /\ posting.pc = "idle"
    /\ posting' = PostBeginSend([IdlePosting EXCEPT !.user_id = u, !.chat_id = chat_id],
                                "typing_on", TypingIndicator(chat_id, TRUE))
    /\ UNCHANGED <<shaped, inbox, title>>
    /\ UNCHANGED <<history, fit, generation>>
    /\ UNCHANGED <<svars, rvars, cvars>>

\* one websocket.send_text of the send_to_user call send_message is in;
\* after the last one the sockets whose send failed are disconnected
PostSendOne ==
    /\ posting.pending # {}
    /\ \E ws \in posting.pending :
          LET ok == transport[ws] = "open"
              frame == posting.emitted[Len(posting.emitted)]
              p1 == [posting EXCEPT
                        !.pending = @ \ {ws},
                        !.disconnected = IF ok THEN @ ELSE @ \cup {ws}]
              last == p1.pending = {}
              maps == IF last
                      THEN DisconnectAll(active_connections, connection_users,
                                         p1.disconnected)
                      ELSE [ac |-> active_connections, cu |-> connection_users]
          IN  /\ received' = IF ok THEN [received EXCEPT ![ws] = Append(@, frame)]
                             ELSE received
              /\ active_connections' = maps.ac
              /\ connection_users' = maps.cu
              /\ posting' = IF last THEN PostAfterSend(p1) ELSE p1
    /\ UNCHANGED <<transport, endpoint, runs>>
    /\ UNCHANGED <<shaped, inbox, title>>
    /\ UNCHANGED <<history, fit, generation>>
    /\ UNCHANGED <<rvars, cvars>>

\* a step of send_message between two sends leaves everything else alone
PostingOnly ==
    /\ UNCHANGED <<shaped, inbox, title>>
    /\ UNCHANGED <<history, fit, generation>>
    /\ UNCHANGED <<svars, rvars, cvars>>

\* generate_response and the Message built from its content: returns, or an
\* exception (the content is no text)
PostGenerate(ok) ==
    /\ posting.pc = "generate"
    /\ posting' = IF ok THEN [posting EXCEPT !.pc = "store"] ELSE PostFails(posting)
    /\ PostingOnly

\* db.messages.insert_one and db.chats.update_one: return, or raise
PostStore(ok) ==
    /\ posting.pc = "store"
    /\ posting' = IF ok THEN [posting EXCEPT !.pc = "title"] ELSE PostFails(posting)
    /\ PostingOnly

\* the title of a first message: not due, or generate_title and the update
\* succeed and send_chat_update follows, or an exception that the inner
\* except clause swallows
PostTitle(outcome) ==
    /\ posting.pc = "title"
    /\ posting' = IF outcome = "updated"
                  THEN PostBeginSend(posting, "title_update",
                                     ChatUpdateFrame(posting.chat_id))
                  ELSE [posting EXCEPT !.pc = "deliver"]
    /\ PostingOnly

\* send_chat_message of the AI message; building its payload may raise
PostDeliver(ok) ==
    /\ posting.pc = "deliver"
    /\ posting' = IF ok
                  THEN PostBeginSend(posting, "ai_message",
                                     ChatMessageFrame(posting.chat_id))
                  ELSE PostFails(posting)
    /\ PostingOnly

\* send_typing_indicator(..., False) at the end of the try block
PostStopTyping ==
    /\ posting.pc = "stop_typing"
    /\ posting' = PostBeginSend(posting, "typing_off",
                                TypingIndicator(posting.chat_id, FALSE))
    /\ PostingOnly

(***************************************************************************)
(* Initial state: no connection, no run, an empty rate_limits collection   *)
(***************************************************************************)
Init ==
    /\ active_connections = << >>
    /\ connection_users = << >>
    /\ transport = [w \in Sockets |-> "new"]
    /\ endpoint = [w \in Sockets |-> [pos |-> "none", user_id |-> None]]
    /\ received = [w \in Sockets |-> <<>>]
    /\ runs = [m \in Runs |-> IdleRun]
    /\ now = 0
    /\ ticks = 0
    /\ rate_limits = EmptyBag
    /\ response = NoResponse
    /\ admitted = EmptyBag
    /\ bodies = EmptyBag
    /\ history = << >>
    /\ fit = NoFit
    /\ generation = IdleGeneration
    /\ title = NoTitle
    /\ calls = [p \in Callers |-> IdleCall]
    /\ broadcast = IdleBroadcast
    /\ shaped = NoRequest
    /\ inbox = [w \in Sockets |-> EmptyInbox]
    /\ posting = IdlePosting

(***************************************************************************)
(* Specifications of the delivery pipeline.  SpecStream: one run fanned    *)
(* out to the two sockets of u1.  SpecConcurrent: two runs in flight at    *)
(* once over one socket.                                                   *)
(***************************************************************************)
FanoutSockets == {"w1", "w2"}
FanoutRuns == {"m1"}

StreamNext ==
    \/ \E ws \in FanoutSockets : Connect(ws, Token[ws])
    \/ \E ws \in FanoutSockets : ConnectConfirm(ws)
    \/ \E ws \in FanoutSockets : ClientClose(ws)
    \/ \E ws \in FanoutSockets : EndpointExit(ws)
    \/ \E ws \in FanoutSockets, m \in FanoutRuns, s \in {"openai", "claude"} :
          HandleStreamRequest(ws, m, s)
    \/ \E m \in FanoutRuns, u \in Users : StreamAiResponse(m, u)
    \/ \E m \in FanoutRuns : SendOne(m)
    \/ \E m \in FanoutRuns : GatewayFallback(m)
    \/ \E m \in FanoutRuns : GatewayBuffered(m)
    \/ \E m \in FanoutRuns : GatewayEvent(m)
    \/ \E m \in FanoutRuns : GatewayEnd(m)
    \/ \E m \in FanoutRuns : GatewayRaise(m)
    \/ \E m \in FanoutRuns : GatewayClosed(m)
    \/ \E m \in FanoutRuns : RawItem(m, RawChunks)
    \/ \E m \in FanoutRuns : RawStop(m)
    \/ \E m \in FanoutRuns : RawRaise(m)

SpecStream == Init /\ [][StreamNext]_vars

SoloSockets == {"w1"}

ConcurrentNext ==
    \/ \E ws \in SoloSockets : Connect(ws, Token[ws])
    \/ \E ws \in SoloSockets : ConnectConfirm(ws)
    \/ \E ws \in SoloSockets : ClientClose(ws)
    \/ \E ws \in SoloSockets : EndpointExit(ws)
    \/ \E m \in Runs : StreamAiResponse(m, "u1")
    \/ \E m \in Runs : SendOne(m)
    \/ \E m \in Runs : RawItem(m, RunChunks(m))
    \/ \E m \in Runs : RawStop(m)
    \/ \E m \in Runs : RawRaise(m)

SpecConcurrent == Init /\ [][ConcurrentNext]_vars

(***************************************************************************)
(* Properties of the streaming coordinator                                 *)
(***************************************************************************)
Types(frames) == [i \in 1..Len(frames) |-> frames[i].type]

Repeat(x, n) == [i \in 1..n |-> x]

\* stream_start, k stream_chunk frames, then the frame last
Framing(k, last) == <<"stream_start">> \o Repeat("stream_chunk", k) \o <<last>>

Terminal == {"stream_end", "stream_error"}

\* the frames of message id m the client of ws received, in order
FramesOf(ws, m) == SelectSeq(received[ws], LAMBDA f : f.message_id = m)

\* the chunks carried by the stream_chunk frames among frames
ChunksOf(frames) ==
    LET cf == SelectSeq(frames, LAMBDA f : f.type = "stream_chunk")
    IN  [i \in 1..Len(cf) |-> cf[i].chunk]

RECURSIVE ConcatContents(_)
\* the deltas of a sequence of chunks, concatenated in order
ConcatContents(chunks) ==
    IF chunks = <<>> THEN ""
    ELSE (IF Head(chunks).content = None THEN "" ELSE Head(chunks).content)
         \o ConcatContents(Tail(chunks))

\* the sockets that were in the user's set when run m started and still are
Survivors(m) == (runs[m].audience \cap Recipients(runs[m].user_id)) \ runs[m].failed

\* C1: when the provider stream behind generate_stream_response raises after
\* j chunks, the run emits exactly start, j chunks, stream_error, pulls nothing
\* more from the generator and sends no stream_end.
C1_ErrorChunkFails ==
    \A m \in Runs :
        (runs[m].provider_raised >= 0 /\ runs[m].pc = "done")
        => /\ Types(runs[m].emitted) = Framing(runs[m].provider_raised, "stream_error")
           /\ runs[m].pulls = runs[m].provider_raised + 1

\* C2: a run whose sequence is exhausted normally after K elements emits
\* start, K chunks, end, and every socket of the user that stays registered
\* for the whole run receives exactly these frames in this order.
C2_CompletedFraming ==
    \A m \in Runs :
        (runs[m].pc = "done" /\ ~runs[m].raised)
        => /\ Types(runs[m].emitted) = Framing(Len(runs[m].yielded), "stream_end")
           /\ \A ws \in Survivors(m) : FramesOf(ws, m) = runs[m].emitted

C2_Witness ==
    \E m \in Runs, ws \in Sockets :
        /\ runs[m].pc = "done" /\ ~runs[m].raised
        /\ Len(runs[m].yielded) = 2
        /\ ws \in Survivors(m)

\* C3: when the sequence raises after j elements were relayed, the frames
\* emitted are exactly start, j chunks, one stream_error; the sequence is not
\* pulled again and no stream_end follows.
C3_RaiseFraming ==
    \A m \in Runs :
        runs[m].raised
        => /\ Types(runs[m].emitted) = Framing(Len(runs[m].yielded), "stream_error")
           /\ runs[m].pulls = Len(runs[m].yielded) + 1
           /\ runs[m].pc \in {"error", "done"}

C3_Witness ==
    \E m \in Runs :
        runs[m].raised /\ Len(runs[m].yielded) = 2 /\ runs[m].pc = "done"

\* C4: a run goes Started -> Streaming -> Completed or Failed: its first frame
\* is the start frame, a terminal frame (end or error) is the last frame it
\* emits, it emits exactly one by the time it is over, and no socket receives a
\* frame of the run after the terminal frame.
C4_TerminalAbsorbing ==
    \A m \in Runs :
        LET ty == Types(runs[m].emitted)
            n == Len(ty)
        IN  /\ \A i \in 1..n :
                  /\ (i = 1) <=> (ty[i] = "stream_start")
                  /\ ty[i] \in Terminal => i = n
                  /\ ty[i] \in {"stream_start", "stream_chunk"} \cup Terminal
            /\ (runs[m].pc \in {"end", "error", "done"}) <=> (n > 0 /\ ty[n] \in Terminal)
            /\ (runs[m].pc = "idle") <=> (n = 0)
            /\ \A ws \in Sockets :
                  LET got == Types(FramesOf(ws, m))
                  IN  \A i \in 1..Len(got) : got[i] \in Terminal => i = Len(got)

C4_Witness ==
    \E m \in Runs :
        /\ runs[m].pc = "done"
        /\ Len(runs[m].emitted) = 4
        /\ runs[m].emitted[4].type = "stream_error"
        /\ \E ws \in Sockets : Len(FramesOf(ws, m)) = 4

\* C5: the full_content of a stream_end frame is the concatenation, in order,
\* of the deltas of the chunk frames the same run emitted before it, and the
\* accumulator of a run in flight holds the deltas of that run alone, whatever
\* another run does at the same time.
C5_FullTextIsConcatenation ==
    \A m \in Runs :
        /\ \A i \in 1..Len(runs[m].emitted) :
              runs[m].emitted[i].type = "stream_end"
              => runs[m].emitted[i].full_content =
                    ConcatContents(ChunksOf(SubSeq(runs[m].emitted, 1, i - 1)))
        /\ LET k == Len(runs[m].yielded) - (IF runs[m].pc = "chunk" THEN 1 ELSE 0)
           IN  runs[m].full_content = ConcatContents(SubSeq(runs[m].yielded, 1, k))

C5_Witness ==
    /\ runs["m1"].pc = "done"
    /\ runs["m1"].emitted[Len(runs["m1"].emitted)].full_content = "ab"
    /\ InFlight("m2")
    /\ runs["m2"].full_content = "c"

\* C6: once a send to one socket of the user has failed during a run, that
\* socket is removed from the user's set when the send_to_user call returns,
\* and every socket that stays registered still receives every frame of the
\* run, the terminal frame included.
C6_FanoutSurvivesFailure ==
    \A m \in Runs :
        runs[m].failed # {}
        => /\ runs[m].pending = {}
              => \A ws \in runs[m].failed :
                    ws \notin DOMAIN connection_users
                    /\ ws \notin Recipients(runs[m].user_id)
           /\ \A ws \in Survivors(m) :
                 FramesOf(ws, m) =
                    IF ws \in runs[m].pending
                    THEN SubSeq(runs[m].emitted, 1, Len(runs[m].emitted) - 1)
                    ELSE runs[m].emitted

C6_Witness ==
    \E m \in Runs, dead \in Sockets, live \in Sockets :
        /\ runs[m].pc = "done"
        /\ dead \in runs[m].failed
        /\ Len(FramesOf(dead, m)) >= 1
        /\ live \in Survivors(m)
        /\ Len(FramesOf(live, m)) >= 4 /\ Len(FramesOf(live, m)) > Len(FramesOf(dead, m))

\* C7: a run whose user loses every socket while it is in flight is not
\* cancelled: it always has a next step, it consumes its sequence to the end and
\* finishes with a stream_end carrying all the text, and a frame sent while the
\* user has no socket reaches nobody and changes nothing in the registry.
C7_OrphanedRunCompletes ==
    \A m \in Runs :
        runs[m].orphaned
        => /\ InFlight(m) => (runs[m].pc = "pull" \/ runs[m].pending # {})
           /\ (runs[m].pc = "done" /\ ~runs[m].raised)
              => /\ runs[m].gen = "closed"
                 /\ Types(runs[m].emitted) = Framing(Len(runs[m].yielded), "stream_end")
                 /\ runs[m].emitted[Len(runs[m].emitted)].full_content =
                       ConcatContents(runs[m].yielded)

C7_Witness ==
    \E m \in Runs :
        /\ runs[m].orphaned /\ runs[m].pc = "done" /\ ~runs[m].raised
        /\ Len(runs[m].yielded) = 2
        /\ runs[m].full_content = "ab"
        /\ active_connections = << >>


(***************************************************************************)
(* Specifications of the limiter.  SpecRate: the two routes that call      *)
(* check_ip_rate_limits themselves, the clock and the hourly sweep.        *)
(* SpecRoutes: the three decorated routes called by one user.              *)
(***************************************************************************)
RateNext ==
    \/ \E ip \in Ips : Register(ip)
    \/ \E ip \in Ips : Login(ip)
    \/ \E d \in TickSteps : Tick(d)
    \/ CleanupExpiredRateLimits

SpecRate == Init /\ [][RateNext]_vars

RouteUsers == {"u1"}

RoutesNext ==
    \/ \E u \in RouteUsers : CreateChat(u)
    \/ \E u \in RouteUsers : SendMessage(u)
    \/ \E u \in RouteUsers : UploadFile(u)
    \/ Tick(60)

SpecRoutes == Init /\ [][RoutesNext]_vars

WrapperNext ==
    \/ \E t \in {"export"}, ip \in Ips, u \in RouteUsers :
          Decorated(t, ip, u)
    \/ \E d \in TickSteps : Tick(d)

SpecWrapper == Init /\ [][WrapperNext]_vars

\* the documents, or history records, of (key, identifier) stamped at or after t
Since(coll, key, identifier, t) ==
    CountDocuments(coll, InWindow(coll, key, identifier, t))

\* C8: for sequential calls on one (key, category), after a call that returned
\* allow the stored entries stamped at or after now - window number at most
\* limit, and no call is allowed once limit calls were admitted in its window:
\* counting the allowed call itself, at most limit admitted calls are stamped
\* at or after its now - window.
C8_WindowNeverExceedsLimit ==
    (response.status \notin {0, 429}) =>
        /\ Since(rate_limits, response.key, response.identifier,
                 now - response.window) <= response.limit
        /\ Since(admitted, response.key, response.identifier,
                 response.at - response.window) <= response.limit

\* a login is denied, some time after the first one, with the window full
C8_Witness ==
    /\ response.status = 429
    /\ response.route = "login"
    /\ response.at = now
    /\ now > 0
    /\ Since(admitted, response.key, response.identifier, now - response.window)
          = response.limit

\* C9: the body of create_chat, send_message and upload_file runs only after
\* the identity-keyed admit of its category allowed it at that instant, and
\* no user has more than 30 chat bodies run inside 60 seconds.
C9_RoutesAreGated ==
    /\ \A b \in DOMAIN bodies :
          Since(admitted, UserKey(b.user_id), b.request_type, b.at) > 0
    /\ \A u \in RouteUsers :
          CountDocuments(bodies, {b \in DOMAIN bodies : /\ b.user_id = u
                                                         /\ b.request_type = "chat"}) <= 30

\* C10: a denial carries as Retry-After the oldest timestamp in the current
\* window of the denied (subject, category), plus the category's window, minus
\* now; the value is positive and at most the window.
C10_RetryAfterIsWindowRemainder ==
    (response.status = 429 /\ response.at = now) =>
        LET oldest == FindOldest(rate_limits,
                         InWindow(rate_limits, response.key, response.identifier,
                                  now - response.window))
            due == oldest[1].timestamp + response.window - now
        IN  /\ oldest # << >>
            /\ response.headers["Retry-After"] = ToString(due)
            /\ due > 0
            /\ due <= response.window


\* the documents of (key, identifier) stamped at or after t, with their counts
WindowBag(coll, key, identifier, t) ==
    [d \in InWindow(coll, key, identifier, t) |-> coll[d]]

\* C11: a call that returns false records nothing: across a step that answers
\* a denial the entries of the denied (key, category) inside the window are
\* the same before and after, and the collection only loses documents.
C11_DenialRecordsNothing ==
    [][(now' = now /\ response'.status = 429) =>
          /\ WindowBag(rate_limits', response'.key, response'.identifier,
                       now - response'.window)
                = WindowBag(rate_limits, response'.key, response'.identifier,
                            now - response'.window)
          /\ rate_limits' \sqsubseteq rate_limits
          /\ admitted' = admitted]_vars

\* a registration is denied some time after the first one, its window full
C11_Witness ==
    /\ response.status = 429
    /\ response.route = "register"
    /\ response.at = now
    /\ now > 0
    /\ Since(rate_limits, response.key, response.identifier, now - response.window)
          = response.limit


\* the calls on the pair of the last request that were admitted inside its
\* window before it
AdmittedBefore ==
    Since(admitted, response.key, response.identifier, response.at - response.window)
       - (IF response.status = 429 THEN 0 ELSE 1)

\* C12 as stated: after N admitted calls in the window with 1 <= N < limit,
\* the next call in that window returns false.
C12_DeniedBelowLimit ==
    (response.status # 0 /\ AdmittedBefore >= 1 /\ AdmittedBefore < response.limit)
        => response.status = 429

\* C12 amended: the next call in the window returns false exactly when limit
\* calls were admitted in it, and true after any N < limit.
C12_DeniedExactlyAtLimit ==
    (response.status # 0) =>
        (response.status = 429 <=> AdmittedBefore >= response.limit)

\* a login is admitted as the last one its window has room for
C12_Witness ==
    /\ response.status \notin {0, 429}
    /\ response.route = "login"
    /\ now > 0
    /\ AdmittedBefore = response.limit - 1


(***************************************************************************)
(* Specification of truncation: a chat grows and is truncated for a call.  *)
(***************************************************************************)
FitNext ==
    \/ \E c \in Contents : AppendMessage(c)
    \/ \E k \in ModelKeys, sp \in SystemPrompts, ok \in BOOLEAN :
          \E mt \in MaxTokensFor(k) : Truncate(k, sp, mt, ok)

SpecFit == Init /\ [][FitNext]_vars

\* the last k messages of a sequence
Suffix(messages, k) == SubSeq(messages, Len(messages) - k + 1, Len(messages))

RECURSIVE SumTokens(_, _, _)
\* the estimated tokens of a sequence of messages
SumTokens(messages, model, tiktoken_ok) ==
    IF messages = << >> THEN 0
    ELSE CountTokens(Head(messages).content, model, tiktoken_ok)
            + SumTokens(Tail(messages), model, tiktoken_ok)

\* the estimated tokens of the system text of the last call
SystemTokens ==
    IF fit.system_prompt = << >> THEN 0
    ELSE CountTokens(fit.system_prompt[1], fit.model, fit.tiktoken_ok)

\* what the last call's messages may use: capacity - reserved output - system
Budget == TokenLimit(fit.model) - fit.max_tokens - SystemTokens

\* C13: the result of truncation is a contiguous suffix of its input, in the
\* input's order: nothing newer than a kept message is dropped, nothing is
\* reordered or duplicated.
C13_ResultIsSuffix ==
    fit.called =>
        \E k \in 0..Len(fit.messages) : fit.result = Suffix(fit.messages, k)

\* a call that dropped some messages and kept some
C13_Witness ==
    /\ fit.called
    /\ Len(fit.result) > 0
    /\ Len(fit.result) < Len(fit.messages)


\* C14: the result is the longest suffix that fits: every strictly longer
\* suffix of the input has an estimated total above capacity - reserved
\* output - estimated system tokens.
C14_NoLongerSuffixFits ==
    fit.called =>
        \A k \in (Len(fit.result) + 1)..Len(fit.messages) :
            SumTokens(Suffix(fit.messages, k), fit.model, fit.tiktoken_ok) > Budget

\* five turns of 40 tokens each and room for 80: exactly the last two are kept
C14_Witness ==
    /\ fit.called
    /\ Len(fit.messages) = 5
    /\ \A i \in 1..5 :
          CountTokens(fit.messages[i].content, fit.model, fit.tiktoken_ok) = 40
    /\ Budget = 80
    /\ fit.result = Suffix(fit.messages, 2)


\* the estimated tokens of the messages the last call returned
ResultTokens == SumTokens(fit.result, fit.model, fit.tiktoken_ok)

\* C15 as stated: for every history, model, reserved output and system text
\* the returned turns' tokens + reserved output + system tokens <= capacity.
C15_AlwaysWithinCapacity ==
    fit.called => ResultTokens + fit.max_tokens + SystemTokens <= TokenLimit(fit.model)

\* C15 amended: the bound holds whenever the reserved output and the system
\* text alone do not exceed the capacity.
C15_WithinCapacityWhenRoom ==
    (fit.called /\ fit.max_tokens + SystemTokens <= TokenLimit(fit.model)) =>
        ResultTokens + fit.max_tokens + SystemTokens <= TokenLimit(fit.model)

\* a call with a counted system text that kept some messages and dropped some
C15_Witness ==
    /\ fit.called
    /\ SystemTokens > 0
    /\ fit.max_tokens + SystemTokens <= TokenLimit(fit.model)
    /\ ResultTokens > 0
    /\ Len(fit.result) < Len(fit.messages)


(***************************************************************************)
(* Specification of generation: one generate_response call on a chat.      *)
(***************************************************************************)
GenerateNext ==
    \/ \E c \in Contents : StoreUserMessage(c)
    \/ \E m \in ModelNames, stream \in BOOLEAN, client \in BOOLEAN :
          GenerateResponse(m, stream, client)
    \/ AttemptNotInitialized
    \/ \E f \in FinishReasons : AttemptReturns(f)
    \/ \E e \in ApiErrors : AttemptRaises(e)
    \/ RetryWait
    \/ SendMessageStores
    \/ StreamTaken

SpecGenerate == Init /\ [][GenerateNext]_vars


\* the attempts of the call that failed with a transient error only
OnlyTransient(errors) == \A i \in 1..Len(errors) : Transient(errors[i])

\* C16: a generate call makes at most 3 attempts against the backend; after
\* a transient failure it tries again unless that was the third failed
\* attempt, and once an attempt has succeeded (or the call has ended) no
\* further attempt and no further request is made.
C16_AtMostThreeAttempts ==
    [][/\ generation'.attempt_number <= 3
       /\ generation'.requests <= 3
       /\ Len(generation'.errors) <= 3
       /\ (/\ generation.pc = "attempt"
           /\ Len(generation'.errors) > Len(generation.errors)
           /\ Transient(generation'.errors[Len(generation'.errors)]))
          => IF Len(generation'.errors) < 3
             THEN generation'.pc = "wait"
             ELSE generation'.pc = "returned"
       /\ generation.pc = "wait"
          => /\ generation'.pc = "attempt"
             /\ generation'.attempt_number = generation.attempt_number + 1
       /\ generation.pc \in {"returned", "done"}
          => /\ generation'.pc \in {"returned", "done"}
             /\ generation'.attempt_number = generation.attempt_number
             /\ generation'.requests = generation.requests]_vars

\* a call that succeeded on its third attempt after two transient failures
C16_Witness ==
    /\ generation.pc = "returned"
    /\ generation.attempt_number = 3
    /\ generation.requests = 3
    /\ Len(generation.errors) = 2
    /\ OnlyTransient(generation.errors)
    /\ generation.result.model # "fallback"

\* C17: a non-transient provider error (bad request, authentication failure,
\* client not configured) ends the call at once: the operation was attempted
\* exactly once, is not waiting to be retried, and the error is what the
\* caller of generate_response gets.
C17_PermanentErrorNotRetried ==
    (\E i \in 1..Len(generation.errors) : ~Transient(generation.errors[i]))
    => /\ generation.attempt_number = 1
       /\ Len(generation.errors) = 1
       /\ generation.pc \in {"returned", "done"}
       /\ generation.raised

\* C18: when every attempt has failed, generate_response does not raise: it
\* returns the fallback response with the fixed apology text and reason
\* "error", and send_message stores that text as the assistant message and
\* answers 200.
C18_ExhaustedReturnsApology ==
    (generation.pc \in {"returned", "done"} /\ Len(generation.errors) = stop_after_attempt)
    => /\ ~generation.raised
       /\ generation.result.content = ApologyText
       /\ generation.result.finish_reason = "error"
       /\ (generation.pc = "done" /\ ~generation.stream)
          => /\ generation.status = 200
             /\ generation.stored = ApologyText

\* send_message stored the apology after three failed attempts
C18_Witness ==
    /\ generation.pc = "done"
    /\ ~generation.stream
    /\ generation.requests = 3
    /\ Len(generation.errors) = stop_after_attempt
    /\ generation.stored = ApologyText


\* the positions of the terminal chunks among the chunks a generator yielded
TerminalChunks(yielded) == {i \in 1..Len(yielded) : yielded[i].type = "end"}

\* C19: every stream of generate_stream_response that has been consumed to
\* its end holds exactly one terminal chunk, whatever the provider's events
\* were, and that chunk's reason is stop, length or error.
C19_ExactlyOneTerminalChunk ==
    \A m \in Runs :
        (runs[m].source \in {"openai", "claude"} /\ runs[m].pc = "done")
        => /\ Cardinality(TerminalChunks(runs[m].yielded)) = 1
           /\ \A i \in TerminalChunks(runs[m].yielded) :
                 runs[m].yielded[i].finish_reason \in {"stop", "length", "error"}


(***************************************************************************)
(* Specification of the registry: the sockets of two users connect, close  *)
(* and leave while a run sends to either user.                             *)
(***************************************************************************)
RegistryRuns == {"m1"}

RegistryNext ==
    \/ \E ws \in Sockets : Connect(ws, Token[ws])
    \/ \E ws \in Sockets : ConnectConfirm(ws)
    \/ \E ws \in Sockets : ClientClose(ws)
    \/ \E ws \in Sockets : EndpointExit(ws)
    \/ \E m \in RegistryRuns, u \in Users : StreamAiResponse(m, u)
    \/ \E m \in RegistryRuns : SendOne(m)
    \/ \E m \in RegistryRuns : RawItem(m, {TextChunk("a")})
    \/ \E m \in RegistryRuns : RawStop(m)
    \/ \E m \in RegistryRuns : RawRaise(m)

SpecRegistry == Init /\ [][RegistryNext]_vars

\* C20: in every reachable registry state no socket is in the connection
\* sets of two different users, and every socket in a user's set is mapped
\* to that user alone (the sets are sets: no socket is held twice).
C20_ChannelHasOneIdentity ==
    /\ \A u \in DOMAIN active_connections, v \in DOMAIN active_connections :
          u # v => active_connections[u] \cap active_connections[v] = {}
    /\ \A u \in DOMAIN active_connections :
          \A ws \in active_connections[u] :
              ws \in DOMAIN connection_users /\ connection_users[ws] = u

\* both users are registered after a send to u1 failed on w2 and removed
\* that socket only
C20_Witness ==
    /\ DOMAIN active_connections = Users
    /\ active_connections["u1"] = {"w1"}
    /\ active_connections["u2"] = {"w3"}
    /\ DOMAIN connection_users = {"w1", "w3"}
    /\ runs["m1"].user_id = "u1"
    /\ runs["m1"].failed = {"w2"}


\* C21: disconnect is idempotent: in every reachable registry state a second
\* disconnect of the same socket, and a disconnect of a socket that is not
\* registered (never connected, or removed before), does not raise and
\* leaves both maps as they were.
C21_DisconnectIdempotent ==
    \A ws \in Sockets :
        LET first == DisconnectMaps(active_connections, connection_users, ws)
            second == DisconnectMaps(first.ac, first.cu, ws)
        IN  /\ ~first.raised
            /\ ~second.raised
            /\ second.ac = first.ac
            /\ second.cu = first.cu
            /\ ws \notin DOMAIN connection_users
               => /\ first.ac = active_connections
                  /\ first.cu = connection_users

\* the endpoint of w2 has called disconnect after a failed send had already
\* removed w2; w1 is still registered and w3 never connected
C21_Witness ==
    /\ endpoint["w2"].pos = "exited"
    /\ "w2" \in runs["m1"].failed
    /\ runs["m1"].pending = {}
    /\ "w1" \in DOMAIN connection_users
    /\ endpoint["w3"].pos = "none"


\* C22: a send_to_user call for a user who has no socket registered is a
\* no-op: the step in which a run emits a frame for such a user leaves no
\* socket to send to, changes neither map, delivers nothing to any client,
\* marks no socket as failed and lets the run go on as after any other send.
C22_SendToNobodyIsNoOp ==
    [][\A m \in Runs :
          (/\ Len(runs'[m].emitted) = Len(runs[m].emitted) + 1
           /\ ~IsUserConnected(runs'[m].user_id))
          => /\ runs'[m].pending = {}
             /\ runs'[m].failed = runs[m].failed
             /\ runs'[m].pc \in {"pull", "done"}
             /\ active_connections' = active_connections
             /\ connection_users' = connection_users
             /\ received' = received
             /\ transport' = transport]_vars

\* a whole run for u2, who never connected, has completed while u1's socket
\* w1 is registered and has received its connection frame only
C22_Witness ==
    /\ runs["m1"].user_id = "u2"
    /\ runs["m1"].pc = "done"
    /\ Len(runs["m1"].emitted) >= 3
    /\ endpoint["w3"].pos = "none"
    /\ ~IsUserConnected("u2")
    /\ "w1" \in DOMAIN connection_users
    /\ Len(received["w1"]) = 1


(***************************************************************************)
(* Specification of title generation: generate_title calls.                *)
(***************************************************************************)
TitleNext ==
    \E outcome \in TitleOutcomes, content \in TitleContents :
        GenerateTitle(outcome, content)

SpecTitle == Init /\ [][TitleNext]_vars

\* C23: generate_title never raises and returns a text of at most 50
\* characters; on every failure of the backend call, a missing client
\* included, the text is the default title "New Chat".
C23_TitleShortOrDefault ==
    title.called
    => /\ ~title.raised
       /\ TextLen(title.result) <= 50
       /\ title.outcome # "content" => title.result = DefaultTitle

\* a completion of more than 50 characters after stripping was cut to 50
C23_Witness ==
    /\ title.called
    /\ title.outcome = "content"
    /\ TextLen(Strip(title.content, Whitespace)) > 50
    /\ TextLen(title.result) = 50


\* the error texts clients were sent: the error of every stream_error frame
\* and of every error chunk carried by a stream_chunk frame
ErrorPayloads ==
    UNION {{received[ws][i].error : i \in {j \in 1..Len(received[ws]) :
                                              received[ws][j].type = "stream_error"}}
           \cup {received[ws][i].chunk.error :
                    i \in {j \in 1..Len(received[ws]) :
                              /\ received[ws][j].type = "stream_chunk"
                              /\ received[ws][j].chunk.type = "error"}} :
           ws \in Sockets}

\* C24: what a client is told about a failure does not depend on the text of
\* the internal exception: all exceptions here are of one kind, so every
\* error payload sent to a client is the same, and it is not the text of
\* the exception itself.
C24_ErrorPayloadIsStable ==
    /\ Cardinality(ErrorPayloads) <= 1
    /\ ErrorPayloads \cap Exceptions = {}


(***************************************************************************)
(* Specification of racing admissions: the check_rate_limit calls of       *)
(* concurrent registrations from one IP, interleaved at their awaits.      *)
(***************************************************************************)
RaceNext ==
    \/ \E p \in Callers : AdmitStart(p)
    \/ \E p \in Callers : AdmitDelete(p)
    \/ \E p \in Callers : AdmitCount(p)
    \/ \E p \in Callers : AdmitInsert(p)
    \/ \E d \in TickSteps : Tick(d)

SpecRace == Init /\ [][RaceNext]_vars

\* C25: with at most P check_rate_limit calls in flight at any time (here
\* P is 3) the entries of the (key, category) stamped inside the current
\* window never number more than limit + P - 1.
C25_OvershootBoundedByRacers ==
    Since(rate_limits, RaceKey, RaceIdentifier, now - RaceWindow)
        <= RaceLimit + Cardinality(Callers) - 1

\* three calls raced past the count with limit - 1 entries stored and the
\* window holds limit + 2 entries
C25_Witness ==
    /\ Since(rate_limits, RaceKey, RaceIdentifier, now - RaceWindow) = RaceLimit + 2
    /\ \A p \in Callers :
          /\ calls[p].result = "allow"
          /\ calls[p].pc = "idle"
          /\ calls[p].current_count = RaceLimit - 1


\* the two maps describe the same registration: a socket is mapped to a user
\* exactly when it is in that user's set, and no empty set is kept
MapsAgree(ac, cu) ==
    /\ \A u \in DOMAIN ac : ac[u] # {} /\ \A ws \in ac[u] : ws \in DOMAIN cu /\ cu[ws] = u
    /\ \A ws \in DOMAIN cu : cu[ws] \in DOMAIN ac /\ ws \in ac[cu[ws]]

\* C26: connect, disconnect and send racing on one user's set behave as if
\* serialized.  At every suspension point the two maps agree (none is seen
\* half-updated); a send_to_user call works through the copy it took, one
\* socket per send, whatever was connected or disconnected meanwhile, and is
\* always able to take its next step; and a step of a send to one user
\* leaves the sets and mappings of every other user as they were.
C26_RegistryOpsSerialize ==
    [][/\ MapsAgree(active_connections', connection_users')
       /\ \A m \in Runs :
             /\ runs[m].pending # {} => ENABLED SendOne(m)
             /\ (runs'[m] # runs[m] /\ runs[m].pending # {})
                => /\ runs'[m].pending \subseteq runs[m].pending
                   /\ Cardinality(runs'[m].pending) = Cardinality(runs[m].pending) - 1
             /\ runs'[m] # runs[m]
                => \A v \in Users \ {runs'[m].user_id} :
                      /\ (v \in DOMAIN active_connections')
                            = (v \in DOMAIN active_connections)
                      /\ v \in DOMAIN active_connections
                         => active_connections'[v] = active_connections[v]
                      /\ \A ws \in DOMAIN connection_users :
                            connection_users[ws] = v
                            => /\ ws \in DOMAIN connection_users'
                               /\ connection_users'[ws] = v]_vars

\* a send to u1 is working through the copy {w1} it took while w2 has been
\* registered for u1 since and is awaiting its confirmation, and u2 is
\* registered with w3
C26_Witness ==
    /\ runs["m1"].user_id = "u1"
    /\ runs["m1"].pending = {"w1"}
    /\ "w2" \notin runs["m1"].audience
    /\ endpoint["w2"].pos = "connecting"
    /\ active_connections = [u \in Users |-> IF u = "u1" THEN {"w1", "w2"} ELSE {"w3"}]


(***************************************************************************)
(* Specification of a broadcast: two users with one socket each connect,   *)
(* close and leave while broadcast_system_message runs.                    *)
(***************************************************************************)
BroadcastNext ==
    \/ \E ws \in BroadcastSockets : Connect(ws, Token[ws])
    \/ \E ws \in BroadcastSockets : ConnectConfirm(ws)
    \/ \E ws \in BroadcastSockets : ClientClose(ws)
    \/ \E ws \in BroadcastSockets : EndpointExit(ws)
    \/ BroadcastStart
    \/ BroadcastSendOne

SpecBroadcast == Init /\ [][BroadcastNext]_vars

\* C27: a broadcast_system_message call completes without raising and has
\* attempted delivery to every user who was connected when it started, also
\* when a send failed and the pruning removed a user's last socket, or a
\* socket was connected or disconnected meanwhile.
C27_BroadcastCompletes ==
    broadcast.pc = "done"
    => /\ ~broadcast.raised
       /\ broadcast.attempted = broadcast.keys


RECURSIVE IsSubSeq(_, _)
\* s is t with some elements left out
IsSubSeq(s, t) ==
    IF s = << >> THEN TRUE
    ELSE IF t = << >> THEN FALSE
    ELSE IF Head(s) = Head(t) THEN IsSubSeq(Tail(s), Tail(t))
    ELSE IsSubSeq(s, Tail(t))

\* C28: with two runs for one user in flight at the same time, the frames a
\* socket has received under one message id are frames that run emitted, in
\* the order it emitted them, and every frame a run emits carries that
\* run's own message id.
C28_PerRunOrderAndIdentity ==
    \A m \in Runs :
        /\ \A i \in 1..Len(runs[m].emitted) : runs[m].emitted[i].message_id = m
        /\ \A ws \in Sockets : IsSubSeq(FramesOf(ws, m), runs[m].emitted)

\* w1 has received a frame of m1, then one of m2, then one of m1 again,
\* while both runs are in flight
C28_Witness ==
    /\ InFlight("m1")
    /\ InFlight("m2")
    /\ \E i \in 1..Len(received["w1"]), j \in 1..Len(received["w1"]),
          k \in 1..Len(received["w1"]) :
          /\ i < j
          /\ j < k
          /\ received["w1"][i].message_id = "m1"
          /\ received["w1"][j].message_id = "m2"
          /\ received["w1"][k].message_id = "m1"


\* C29: a stream is not restarted.  Once the provider stream behind
\* generate_stream_response has failed, no further provider event is read
\* and nothing more is yielded: the chunks yielded before the failure are
\* followed by one error chunk; and every chunk the generator yields is
\* relayed exactly once, in order.
C29_StreamNotRestarted ==
    [][\A m \in Runs :
          /\ runs'[m].source \in {"openai", "claude"}
             => ChunksOf(runs'[m].emitted) = runs'[m].yielded
          /\ runs[m].provider_raised >= 0
             => /\ runs[m].gen = "closed"
                /\ Len(runs[m].yielded) = runs[m].provider_raised + 1
                /\ runs[m].yielded[Len(runs[m].yielded)].type = "error"
                /\ runs'[m].events = runs[m].events
                /\ runs'[m].yielded = runs[m].yielded
                /\ runs'[m].provider_raised = runs[m].provider_raised]_vars

\* the provider stream failed after the first chunk with events to spare,
\* and the run has ended
C29_Witness ==
    /\ runs["m1"].source \in {"openai", "claude"}
    /\ runs["m1"].provider_raised = 1
    /\ runs["m1"].events = 1
    /\ runs["m1"].events < MaxEvents
    /\ runs["m1"].pc = "done"


\* the documents of coll that are not past their expiry at time t
Live(coll, t) == [d \in {x \in DOMAIN coll : x.expires_at >= t} |-> coll[d]]

\* the times from now on at which a later call may be made
LaterTimes == {now} \cup {now + d : d \in TickSteps}

\* C30: the periodic sweep is advisory.  A step that changes the collection
\* without any call being answered or admitted removes only documents past their
\* expiry, none of them stamped inside the window of its own category, and
\* every check_ip_rate_limits call made now or later returns the same
\* decision and leaves the same live documents as it would without the
\* sweep.
C30_SweepIsAdvisory ==
    [][(/\ now' = now
        /\ response' = response
        /\ admitted' = admitted
        /\ rate_limits' # rate_limits)
       => /\ rate_limits' \sqsubseteq rate_limits
          /\ \A d \in DOMAIN rate_limits :
                CopiesIn(d, rate_limits') < CopiesIn(d, rate_limits)
                => /\ d.expires_at < now
                   /\ d.timestamp < now - IpLimits(d.identifier)[2]
          /\ Live(rate_limits', now) = Live(rate_limits, now)
          /\ \A ip \in Ips, request_type \in {"registration", "auth"}, t \in LaterTimes :
                LET swept == CheckIpRateLimits(rate_limits', t, ip, request_type)
                    unswept == CheckIpRateLimits(rate_limits, t, ip, request_type)
                IN  /\ swept.allowed = unswept.allowed
                    /\ Live(swept.coll, t) = Live(unswept.coll, t)]_vars

\* the sweep has removed the login entry of time 0, which no call after
\* time 0 could have pruned, and has kept the registration entry that
\* expires just now
C30_Witness ==
    /\ now > 0
    /\ response.at = 0
    /\ Since(admitted, IpKey("ip1"), "auth", 0) > 0
    /\ \A d \in DOMAIN rate_limits : d.identifier # "auth"
    /\ \E d \in DOMAIN rate_limits : d.identifier = "registration" /\ d.expires_at = now


(***************************************************************************)
(* SpecPairs: register from two addresses and login from one, so that the  *)
(* collection holds documents of pairs that differ in key, in category,    *)
(* and in both.                                                            *)
(***************************************************************************)
PairIps == {"ip1", "ip2"}
\* logins one address makes at most
MaxLogins == 1

FewLogins(ip_address) ==
    /\ Since(admitted, IpKey(ip_address), "auth", 0) < MaxLogins
    /\ Login(ip_address)

PairsNext ==
    \/ \E ip \in PairIps : Register(ip)
    \/ \E ip \in Ips : FewLogins(ip)
    \/ \E d \in TickSteps : Tick(d)

SpecPairs == Init /\ [][PairsNext]_vars

\* the documents of coll that are not of the pair (key, identifier)
OtherDocuments(coll, key, identifier) ==
    [d \in {x \in DOMAIN coll : ~(x.key = key /\ x.identifier = identifier)} |-> coll[d]]

\* C31: each (key, category) pair has its own counter space.  A step that
\* answers a check_rate_limit call of one pair leaves every document of a
\* different key or a different category as it was, and every later call for
\* another pair is decided as it would have been without that call.
C31_PairsAreIndependent ==
    [][(now' = now) =>
          /\ OtherDocuments(rate_limits', response'.key, response'.identifier)
                = OtherDocuments(rate_limits, response'.key, response'.identifier)
          /\ \A ip \in PairIps, request_type \in {"registration", "auth"},
                t \in LaterTimes :
                (IpKey(ip) # response'.key \/ request_type # response'.identifier)
                => CheckIpRateLimits(rate_limits', t, ip, request_type).allowed
                      = CheckIpRateLimits(rate_limits, t, ip, request_type).allowed]_vars

\* a registration from ip1 is denied after the clock moved, while documents of
\* ip1's logins and of ip2's registrations, stamped before the window of
\* logins began, are still stored
C31_Witness ==
    /\ response.status = 429
    /\ response.route = "register"
    /\ response.key = IpKey("ip1")
    /\ response.at = now
    /\ now >= 60
    /\ \E d \in DOMAIN rate_limits :
          d.key = IpKey("ip1") /\ d.identifier = "auth" /\ d.timestamp < now - 60
    /\ \E d \in DOMAIN rate_limits :
          d.key = IpKey("ip2") /\ d.identifier = "registration" /\ d.timestamp < now


\* C32: the registry keeps no connection state outside a user's set.  In
\* every reachable state a socket is mapped to a user in connection_users
\* exactly when it is a member of that user's set in active_connections, no
\* user is kept with an empty set, and is_user_connected(user) is true
\* exactly when at least one socket is registered for the user.
C32_SetHoldsAllConnectionState ==
    /\ \A ws \in Sockets, u \in Users :
          (ws \in DOMAIN connection_users /\ connection_users[ws] = u)
             <=> (u \in DOMAIN active_connections /\ ws \in active_connections[u])
    /\ \A u \in DOMAIN active_connections : active_connections[u] # {}
    /\ DOMAIN active_connections \subseteq Users
    /\ \A u \in Users :
          IsUserConnected(u)
             <=> \E ws \in DOMAIN connection_users : connection_users[ws] = u

\* the only socket of u2 has been registered and has left again, while one
\* of the two sockets of u1 has left and the other is still registered
C32_Witness ==
    /\ endpoint["w3"].pos = "exited"
    /\ ~IsUserConnected("u2")
    /\ endpoint["w1"].pos = "exited"
    /\ endpoint["w2"].pos = "loop"
    /\ IsUserConnected("u1")
    /\ active_connections["u1"] = {"w2"}


(***************************************************************************)
(* SpecShape: a chat of typed messages grows and a provider request is     *)
(* built for it.                                                           *)
(***************************************************************************)
\* the messages a chat is made of here: one of each type, short or long
ShapeTurns ==
    {[content |-> [chars |-> 3, bpe |-> 1], type |-> "user"],
     [content |-> [chars |-> 163, bpe |-> 50], type |-> "assistant"],
     [content |-> [chars |-> 3, bpe |-> 1], type |-> "system"]}

ShapeNext ==
    \/ \E t \in ShapeTurns : AppendTurn(t.content, t.type)
    \/ \E model \in ModelNames, sp \in SystemPrompts, ok \in BOOLEAN :
          \E mt \in MaxTokensFor(ModelMapping(model)) : ShapeRequest(model, sp, mt, ok)

SpecShape == Init /\ [][ShapeNext]_vars

\* the turn entries of a request: its messages without a leading system entry
TurnEntries(request) ==
    IF request.messages # << >> /\ request.messages[1].role = "system"
    THEN Tail(request.messages)
    ELSE request.messages

\* C33: both request-shaping paths truncate first and preserve order.  The
\* turn entries sent to the provider are those of
\* truncate_messages_to_fit_context(input), a suffix of the input in the
\* input's order; for the OpenAI family a system prompt, when there is one,
\* is the leading entry and there is no separate system argument; for the
\* Claude family the system prompt is the separate system argument and no
\* entry of the list has the role "system".
C33_ShapingFitsFirstKeepsOrder ==
    shaped.called =>
        LET fitted == TruncateMessagesToFitContext(shaped.input, shaped.model,
                                                   shaped.system_prompt,
                                                   shaped.max_tokens, shaped.tiktoken_ok)
            turns == TurnEntries(shaped)
        IN  /\ \E k \in 0..Len(shaped.input) :
                  /\ fitted = Suffix(shaped.input, k)
                  /\ Len(turns) = k
                  /\ \A i \in 1..k :
                        /\ turns[i].content = Suffix(shaped.input, k)[i].content
                        /\ turns[i].role = Role(Suffix(shaped.input, k)[i].type)
            /\ \A i \in 1..Len(shaped.messages) :
                  shaped.messages[i].role = "system" => i = 1 /\ shaped.family = "openai"
            /\ shaped.family = "openai" =>
                  /\ shaped.system = << >>
                  /\ HasSystemPrompt(shaped.system_prompt) =>
                        /\ shaped.messages # << >>
                        /\ shaped.messages[1]
                              = [role |-> "system", content |-> shaped.system_prompt[1]]
                  /\ ~HasSystemPrompt(shaped.system_prompt) => shaped.messages = turns
            /\ shaped.family = "claude" =>
                  /\ shaped.messages = turns
                  /\ shaped.system = <<IF HasSystemPrompt(shaped.system_prompt)
                                       THEN shaped.system_prompt[1] ELSE EmptyText>>

\* a request of the OpenAI family with a system prompt for a chat of which
\* truncation kept some messages and dropped others
C33_Witness ==
    /\ shaped.called
    /\ shaped.family = "openai"
    /\ HasSystemPrompt(shaped.system_prompt)
    /\ Len(shaped.messages) > 2
    /\ Len(shaped.messages) - 1 < Len(shaped.input)
    /\ \E i \in 1..Len(shaped.input) : shaped.input[i].type = "assistant"


RECURSIVE HeuristicTokens(_)
\* the tokens of a sequence of messages by the heuristic: a quarter of the
\* characters of each
HeuristicTokens(messages) ==
    IF messages = << >> THEN 0
    ELSE Head(messages).content.chars \div 4 + HeuristicTokens(Tail(messages))

\* the exact tokenizer raises for the call that fit describes
TokenizerFails == fit.model \notin ClaudeModels
                     /\ ~(fit.model \in TiktokenModels /\ fit.tiktoken_ok)

\* the tokens left for the messages when every estimate is the heuristic's
HeuristicBudget ==
    TokenLimit(fit.model) - fit.max_tokens
       - (IF fit.system_prompt # << >> THEN fit.system_prompt[1].chars \div 4 ELSE 0)

\* C34: token-estimation failure is masked.  No call of
\* truncate_messages_to_fit_context is left by an exception, and when the
\* exact tokenizer raises the result is the one the characters-per-token
\* heuristic gives: the longest suffix of the messages whose heuristic
\* estimates fit the budget.
C34_EstimatorFailureIsMasked ==
    fit.called =>
        /\ ~fit.raised
        /\ TokenizerFails =>
              /\ \E k \in 0..Len(fit.messages) : fit.result = Suffix(fit.messages, k)
              /\ HeuristicTokens(fit.result) <= HeuristicBudget
                    \/ fit.result = << >>
              /\ \A k \in (Len(fit.result) + 1)..Len(fit.messages) :
                    HeuristicTokens(Suffix(fit.messages, k)) > HeuristicBudget

\* the tokenizer could not be loaded for a model tiktoken knows, and the
\* result, cut by the heuristic, is not the one exact counts would give
C34_Witness ==
    /\ fit.called
    /\ fit.model = "gpt-4"
    /\ ~fit.tiktoken_ok
    /\ fit.result # << >>
    /\ Len(fit.result) < Len(fit.messages)
    /\ fit.result # TruncateMessagesToFitContext(fit.messages, fit.model,
                                                 fit.system_prompt, fit.max_tokens, TRUE)


\* the last request was denied by the identity-keyed check
DeniedByUserCheck(r) ==
    /\ r.status = 429
    /\ \E u \in RouteUsers : r.key = UserKey(u)

\* C35: when the identity-keyed check denies a request, the remaining-quota
\* count returned with the denial is the one computed against the limit and
\* the window of the denied category, and it is 0.
C35_DenialReportsCategoryQuota ==
    (DeniedByUserCheck(response) /\ response.at = now) =>
        /\ response.headers["X-RateLimit-Remaining"]
              = ToString(GetRemainingRequests(rate_limits, now, response.key,
                                              response.limit, response.window,
                                              response.identifier)[1])
        /\ response.headers["X-RateLimit-Remaining"] = "0"

\* C36: a rejected request consumes no quota under either subject.  A step
\* in which the IP-keyed check allows and the identity-keyed check denies
\* leaves no more entries stamped now under the IP key than there were.
C36_RejectedRequestRecordsNothing ==
    [][(/\ now' = now
        /\ DeniedByUserCheck(response')
        /\ response'.at = now)
       => \A ip \in Ips :
             /\ Since(rate_limits', IpKey(ip), response'.identifier, now)
                   <= Since(rate_limits, IpKey(ip), response'.identifier, now)
             /\ Since(admitted', IpKey(ip), response'.identifier, now)
                   <= Since(admitted, IpKey(ip), response'.identifier, now)]_vars

\* C40: the IP-keyed policy of a category is at least as strict as the
\* identity-keyed policy of the same category: inside any window of the
\* identity-keyed policy the IP-keyed check admits no more requests of the
\* category than the identity-keyed limit.
C40_IpPolicyAtLeastAsStrict ==
    \A ip \in Ips, request_type \in {"general", "chat", "file_upload", "export"} :
        Since(admitted, IpKey(ip), request_type, now - UserLimits(request_type)[2])
           <= UserLimits(request_type)[1]


\* C37: a denied subject recovers.  A call for a pair made when every
\* admitted call of the pair is more than window seconds old is allowed,
\* whatever was asked and denied in between: denied attempts never extend
\* the window.
C37_DeniedSubjectRecovers ==
    [][(/\ now' = now
        /\ ~(response' = response /\ admitted' = admitted)
        /\ Since(admitted, response'.key, response'.identifier,
                 now - response'.window) = 0)
       => /\ response'.status # 429
          /\ Since(admitted', response'.key, response'.identifier, now) = 1]_vars

\* three registrations were admitted at time 0, a fourth was denied later,
\* and now the hour since the third has passed
C37_Witness ==
    /\ response.status = 429
    /\ response.route = "register"
    /\ response.at > 0
    /\ Since(admitted, response.key, response.identifier, 0) = response.limit
    /\ Since(admitted, response.key, response.identifier, 1) = 0
    /\ now > response.window


(***************************************************************************)
(* SpecEndpoint: one socket, its client's messages and the runs its        *)
(* stream requests start, the gateway's generator taken as a lazy sequence *)
(* that yields, ends or raises.  The server's steps are fair: the sequence *)
(* yields its next chunk or ends, a send returns or raises, the endpoint   *)
(* reads the next message when it is back at receive_text.  The client's   *)
(* steps are not.                                                          *)
(***************************************************************************)
ServerNext ==
    \/ \E ws \in SoloSockets : ConnectConfirm(ws)
    \/ \E ws \in SoloSockets : ReceivePing(ws)
    \/ \E ws \in SoloSockets : ReceiveTyping(ws)
    \/ \E ws \in SoloSockets : ReceiveMalformed(ws)
    \/ \E ws \in SoloSockets : ReceiveDisconnect(ws)
    \/ \E ws \in SoloSockets, m \in Runs : ReceiveStreamRequest(ws, m, "raw")
    \/ \E m \in Runs : SendOne(m)
    \/ \E m \in Runs : RawItem(m, {TextChunk("a")})
    \/ \E m \in Runs : RawStop(m)
    \/ \E m \in Runs : RawRaise(m)

EndpointNext ==
    \/ \E ws \in SoloSockets : Connect(ws, Token[ws])
    \/ \E ws \in SoloSockets : ClientClose(ws)
    \/ \E ws \in SoloSockets, kind \in ClientMessages : ClientSends(ws, kind)
    \/ ServerNext

SpecEndpoint == Init /\ [][EndpointNext]_vars /\ WF_vars(ServerNext)

\* the pong frames the client of ws received
Pongs(ws) == Len(SelectSeq(received[ws], LAMBDA f : f.type = "pong"))

\* the runs started from ws that are in flight
OwnRunsInFlight(ws) == {m \in Runs : runs[m].owner = ws /\ InFlight(m)}

\* a step that reads a message of ws reads exactly the oldest one, and only
\* when every run started from ws has sent its terminal frame and returned
ReadsOneAtATime(ws) ==
    (inbox'[ws].queue # inbox[ws].queue /\ inbox'[ws].sent = inbox[ws].sent)
       => /\ inbox'[ws].queue = Tail(inbox[ws].queue)
          /\ \A m \in Runs :
                runs[m].owner = ws
                   => /\ runs[m].pc = "done"
                      /\ runs[m].emitted[Len(runs[m].emitted)].type \in Terminal

\* C38 as stated: the messages received on one socket are handled strictly
\* one at a time, a socket never has two of its own runs in flight, and
\* every ping is eventually answered with a pong.
C38_OneAtATimeEveryPingAnswered ==
    /\ [][\A ws \in SoloSockets : ReadsOneAtATime(ws)]_vars
    /\ [](\A ws \in SoloSockets : Cardinality(OwnRunsInFlight(ws)) <= 1)
    /\ \A ws \in SoloSockets, k \in 1..MaxInbox :
          (inbox[ws].pings >= k) ~> (Pongs(ws) >= k)

\* C38 amended: the messages received on one socket are handled strictly one
\* at a time, a socket never has two of its own runs in flight, and every
\* ping is eventually answered with a pong unless the client goes away or
\* the receive loop ends first.
C38_OneAtATimePingAnsweredWhileOpen ==
    /\ [][\A ws \in SoloSockets : ReadsOneAtATime(ws)]_vars
    /\ [](\A ws \in SoloSockets : Cardinality(OwnRunsInFlight(ws)) <= 1)
    /\ \A ws \in SoloSockets, k \in 1..MaxInbox :
          (inbox[ws].pings >= k)
             ~> (Pongs(ws) >= k \/ transport[ws] = "closed"
                                \/ endpoint[ws].pos = "exited")

\* a ping sent while the first run of the socket was in flight has been
\* answered after that run and before the second run started
C38_Witness ==
    /\ runs["m1"].owner = "w1"
    /\ runs["m1"].pc = "done"
    /\ runs["m2"].owner = "w1"
    /\ InFlight("m2")
    /\ Pongs("w1") = 1
    /\ \E i \in 1..Len(received["w1"]) :
          /\ received["w1"][i].type = "pong"
          /\ \E j \in 1..(i - 1) : /\ received["w1"][j].type \in Terminal
                                   /\ received["w1"][j].message_id = "m1"
          /\ \A j \in 1..(i - 1) : received["w1"][j].message_id # "m2"


(***************************************************************************)
(* SpecPosting: one send_message call of u1 while the two sockets of u1    *)
(* connect and go away.  The steps of send_message are fair: every await   *)
(* returns or raises.                                                      *)
(***************************************************************************)
PostingSteps ==
    \/ PostSendOne
    \/ \E ok \in BOOLEAN : PostGenerate(ok)
    \/ \E ok \in BOOLEAN : PostStore(ok)
    \/ \E outcome \in {"not_due", "raises", "updated"} : PostTitle(outcome)
    \/ \E ok \in BOOLEAN : PostDeliver(ok)
    \/ PostStopTyping

PostingNext ==
    \/ \E ws \in FanoutSockets : Connect(ws, Token[ws])
    \/ \E ws \in FanoutSockets : ConnectConfirm(ws)
    \/ \E ws \in FanoutSockets : ClientClose(ws)
    \/ \E ws \in FanoutSockets : EndpointExit(ws)
    \/ \E chat_id \in Chats : PostStart("u1", chat_id)
    \/ PostingSteps

SpecPosting == Init /\ [][PostingNext]_vars /\ WF_vars(PostingSteps)

\* the positions in a sequence of frames of the typing indicators of a chat
\* with a value
IndicatorsAt(frames, chat_id, is_typing) ==
    {i \in 1..Len(frames) : frames[i] = TypingIndicator(chat_id, is_typing)}

\* every indicator "on" of the chat among the frames has an indicator "off"
\* of the same chat after it
EveryOnHasOff(frames, chat_id) ==
    \A i \in IndicatorsAt(frames, chat_id, TRUE) :
        \E j \in IndicatorsAt(frames, chat_id, FALSE) : j > i

\* C39: in send_message every typing indicator with is_typing true sent for
\* a chat is eventually followed by one with is_typing false for the same
\* chat, whether generation, persistence, title generation or delivery
\* succeeds or fails; when the call has ended, a socket of the user that got
\* the first and is still registered and open has got the second after it.
C39_TypingOnIsFollowedByOff ==
    /\ \A chat_id \in Chats :
          (IndicatorsAt(posting.emitted, chat_id, TRUE) # {})
             ~> EveryOnHasOff(posting.emitted, chat_id)
    /\ [](posting.pc = "done" =>
             /\ \A chat_id \in Chats : EveryOnHasOff(posting.emitted, chat_id)
             /\ \A ws \in Recipients(posting.user_id) :
                   transport[ws] = "open"
                      => EveryOnHasOff(received[ws], posting.chat_id))

\* a call that failed after its indicator reached an open socket of the
\* user, and sent the indicator off from its except clause
C39_Witness ==
    /\ posting.pc = "done"
    /\ posting.status = 500
    /\ posting.emitted = <<TypingIndicator("chat1", TRUE), TypingIndicator("chat1", FALSE)>>
    /\ \E ws \in FanoutSockets :
          /\ transport[ws] = "open"
          /\ IndicatorsAt(received[ws], "chat1", TRUE) # {}
          /\ IndicatorsAt(received[ws], "chat1", FALSE) # {}

====
